---- MODULE Spec2Model ----
(***************************************************************************)
(* A model of the d-attend content-addressed document store               *)
(* (IPFSService): the retry executor, the connection manager and the      *)
(* document store with its in-memory collection index; and of the gateway *)
(* resolver (ipfsGateway) that fetches content through it.                *)
(***************************************************************************)
EXTENDS Integers, Sequences, FiniteSets, TLC

(***************************************************************************)
(* Bounds of the exploration.                                             *)
(***************************************************************************)
\* the millisecond clock runs from 0 to MaxClock
MaxClock == 1
\* how many ids uuidv4() hands out
MaxUuid == 1
\* how many store calls the callers make in one behaviour
MaxCalls == 2
\* how many health-check intervals are registered at most
MaxTimers == 1
\* Math.random() takes the values r / RandomGrain, r in 0 .. RandomGrain - 1
RandomGrain == 2
\* long waits end at MaxTtls times the ttl of the gateway cache
MaxTtls == 2

(***************************************************************************)
(* Program constants: retryOptions.                                       *)
(***************************************************************************)
maxRetries == 3
initialDelay == 1000
maxDelay == 10000
factor == 2

(***************************************************************************)
(* Input sets.                                                            *)
(***************************************************************************)
\* the callers of the store
Callers == {"c1", "c2"}
\* the constructor's initIPFS() and the callbacks of the health-check timer
Loops == {"ctor", "t1"}
Tasks == Callers \cup Loops

\* one collection initIPFS predefines and one it does not
Predefined == {"users"}
CollectionNames == {"users", "notes"}

\* what a failing backend call throws
Errors == {"e1", "e2"}

Undefined == "undefined"
\* the value of a property that holds an object (never === a filter value)
ObjectRef == "[object]"
Null == [kind |-> "null"]

\* Objects are ordered mappings: a sequence of [k, v] entries in insertion
\* order, without duplicate keys.
Obj1(k, v) == << [k |-> k, v |-> v] >>
Obj2(k1, v1, k2, v2) == << [k |-> k1, v |-> v1], [k |-> k2, v |-> v2] >>

ObjKeys(o) == { o[i].k : i \in 1..Len(o) }

\* o[key], undefined when the object has no such property
ObjGet(o, key) ==
    IF \E i \in 1..Len(o) : o[i].k = key
    THEN (CHOOSE e \in { o[i] : i \in 1..Len(o) } : e.k = key).v
    ELSE Undefined

\* o with o[key] = v: an existing key keeps its position, a new one is appended
ObjPut(o, key, v) ==
    IF \E i \in 1..Len(o) : o[i].k = key
    THEN [ i \in 1..Len(o) |-> IF o[i].k = key THEN [k |-> key, v |-> v] ELSE o[i] ]
    ELSE Append(o, [k |-> key, v |-> v])

\* { ...base, ...over }
RECURSIVE ObjSpread(_, _)
ObjSpread(base, over) ==
    IF over = << >> THEN base
    ELSE ObjSpread(ObjPut(base, over[1].k, over[1].v), Tail(over))

\* the data arguments of create
CreateData ==
    { Obj2("a", "1", "b", "1"),
      << [k |-> "id", v |-> "r1"], [k |-> "a", v |-> "1"], [k |-> "b", v |-> "2"] >>,
      Obj2("id", "", "b", "1") }

\* the partial data arguments of update
UpdateData == { Obj1("b", "2"), Obj2("a", "2", "c", "1") }

\* the values uuidv4() returns, in the order it returns them
UuidPool == << "g1", "g2", "g3" >>
\* the ids callers ask for in findById, update and delete
CallerIds == { "r1", "g1" }

\* a filter key is the sequence of its dot-separated segments
FilterKey1(k) == << k >>
FilterKey2(p, c) == << p, c >>

\* the filter arguments of findMany
FilterData ==
    { << >>,
      Obj1(FilterKey2("data", "a"), "1"),
      Obj2(FilterKey2("data", "a"), "1", FilterKey2("data", "b"), "1"),
      Obj1(FilterKey1("b"), "2"),
      Obj1(FilterKey1("id"), "r1"),
      Obj2(FilterKey1("type"), "users", FilterKey1("b"), "2"),
      Obj1(FilterKey2("meta", "a"), "1") }

\* the files handed to uploadFile
Files == { "f1", "f2" }

(***************************************************************************)
(* A JavaScript Map: a sequence of [key, value] entries in insertion      *)
(* order.                                                                 *)
(***************************************************************************)
MapHas(m, key) == \E i \in 1..Len(m) : m[i].key = key

MapGet(m, key) ==
    IF MapHas(m, key)
    THEN (CHOOSE e \in { m[i] : i \in 1..Len(m) } : e.key = key).value
    ELSE Null

\* MapSet that moves an existing key to the end
MapSetMovesLast(m, key, value) ==
    Append(SelectSeq(m, LAMBDA e : e.key # key), [key |-> key, value |-> value])

\* Map.prototype.set: an existing key keeps its position, a new one is appended
MapSet(m, key, value) ==
    IF MapHas(m, key)
    THEN [ i \in 1..Len(m) |->
             IF m[i].key = key THEN [key |-> key, value |-> value] ELSE m[i] ]
    ELSE Append(m, [key |-> key, value |-> value])

\* a delete that removes nothing
MapDeleteKeeps(m, key) == m

\* Map.prototype.delete
MapDelete(m, key) == SelectSeq(m, LAMBDA e : e.key # key)

\* Array.from(m.values())
MapValues(m) == [ i \in 1..Len(m) |-> m[i].value ]

MapKeys(m) == [ i \in 1..Len(m) |-> m[i].key ]

(***************************************************************************)
(* The state.                                                             *)
(***************************************************************************)
VARIABLES
    isConnected,    \* IPFSService.isConnected
    ipfs,           \* IPFSService.ipfs: which backend client the service holds
    collections,    \* IPFSService.collections: name -> Map(id -> document)
    contentCache,   \* IPFSService.contentCache: Map(cid -> {content, timestamp})
    timers,         \* how many setInterval health-check timers are registered
    clock,          \* the wall clock, in milliseconds
    uuids,          \* how many ids uuidv4() has handed out
    added,          \* the contents the backend has stored (ipfs.add)
    pinned,         \* the content identifiers the backend has pinned
    pc,             \* where each task is
    call,           \* the call each caller is in
    ret,            \* how each caller's call ended
    document,       \* the local `document` / `updatedDocument` of create / update
    addResult,      \* the local `addResult` / `result`
    retry,          \* the locals of each task's withRetry
    ops,            \* what each task's latest withRetry invoked, caught and slept
    ncalls,         \* how many calls the callers have made
    gatewayCache,   \* the LRU cache of fetched content, by content id
    resolvedUrlCache, \* the LRU cache of resolved URLs, by locator
    fetch,          \* the locals of each caller's fetchContent, and its requests
    registry        \* the storage of DAttendRegistry, its block and its last call

svcVars == << isConnected, ipfs, collections, contentCache, timers >>
envVars == << clock, uuids, added, pinned >>
taskVars == << pc, call, ret, document, addResult, retry, ops, ncalls >>
gwVars == << gatewayCache, resolvedUrlCache, fetch >>
vars == << isConnected, ipfs, collections, contentCache, timers,
           clock, uuids, added, pinned,
           pc, call, ret, document, addResult, retry, ops, ncalls,
           gatewayCache, resolvedUrlCache, fetch, registry >>

(***************************************************************************)
(* Values.                                                                *)
(***************************************************************************)
\* new Date() at clock reading t, and its JSON form
NewDate(t) == [ms |-> t]
ToISOString(d) == [iso |-> d.ms]

\* JSON.stringify(document): the Dates become ISO strings
Stringify(doc) ==
    [id |-> doc.id, type |-> doc.type, data |-> doc.data,
     createdAt |-> ToISOString(doc.createdAt),
     updatedAt |-> ToISOString(doc.updatedAt)]

\* the content identifier of a content: a function of the content alone
CidOf(content) == [cid |-> content]

\* the content uploadFile adds for a file, and the size the backend reports
FileContent(file) == [path |-> "file", content |-> file]
SizeOf(file) == IF file = "f1" THEN 1 ELSE 2

NoCall == [op |-> "none"]
NoRet == [kind |-> "none"]
NoDoc == Null
NoResult == Null

ConnectionError == [kind |-> "error", name |-> "IPFSConnectionError",
                    message |-> "IPFS is not connected"]

\* the locals of withRetry when no withRetry is running
RetryOff ==
    [phase |-> "off", attempt |-> 0, delay |-> 0, lastError |-> Undefined]

\* the log of a withRetry that has invoked nothing
NoOps == [invoked |-> 0, thrown |-> << >>, waits |-> << >>]

Min(a, b) == IF a <= b THEN a ELSE b

\* the locals of fetchContent when no fetchContent is running
NoFetch == [cid |-> Null, gateway |-> 0, httpUrl |-> Null, local |-> "none",
            requests |-> << >>]

(***************************************************************************)
(* The retry executor, withRetry.  Phase "call" is an invocation of the   *)
(* operation in flight, "wait" the sleep between two attempts.  ops[t]    *)
(* logs what the task's latest withRetry did: how often it invoked the    *)
(* operation, what the invocations threw, how long it slept.              *)
(***************************************************************************)
\* the locals at the first invocation of the operation
RetryBegin ==
    [phase |-> "call", attempt |-> 1, delay |-> initialDelay,
     lastError |-> Undefined]

\* the log at the first invocation
OpsBegin == [invoked |-> 1, thrown |-> << >>, waits |-> << >>]

\* a jitter of up to the whole delay
JitterWhole(delay, r) == (delay * r) \div RandomGrain

\* Math.random() * 0.3 * delay, with Math.random() = r / RandomGrain
Jitter(delay, r) == (3 * delay * r) \div (10 * RandomGrain)

\* Math.min(delay * factor + jitter, maxDelay)
NextDelay(delay, r) == Min(delay * factor + Jitter(delay, r), maxDelay)

\* the catch block: the error is kept and the delay grows
AfterCatch(rs, e, r) ==
    [rs EXCEPT !.lastError = e, !.delay = NextDelay(rs.delay, r)]

\* WillRetry that gives up one attempt early
WillRetryOneLess(rs) == rs.attempt < maxRetries - 1

\* attempt < maxRetries: the failed attempt is followed by a sleep and another
WillRetry(rs) == rs.attempt < maxRetries

\* the error thrown after the loop
OperationError(rs) ==
    [kind |-> "error", name |-> "IPFSOperationError",
     attempts |-> maxRetries, cause |-> rs.lastError]

\* an invocation throws e and another attempt is left: sleep for the new delay
RetryFail(t, e, r) ==
    /\ retry[t].phase = "call"
    /\ WillRetry(retry[t])
    /\ LET rs == AfterCatch(retry[t], e, r) IN
         /\ retry' = [retry EXCEPT ![t] = [rs EXCEPT !.phase = "wait"]]
         /\ ops' = [ops EXCEPT ![t].thrown = Append(@, e),
                               ![t].waits = Append(@, rs.delay)]
    /\ UNCHANGED << svcVars, envVars, pc, call, ret, document, addResult, ncalls >>
    /\ UNCHANGED gwVars
    /\ UNCHANGED registry

\* the sleep is over: the next attempt invokes the operation again
RetryWake(t) ==
    /\ retry[t].phase = "wait"
    /\ retry' = [retry EXCEPT ![t] =
                   [@ EXCEPT !.phase = "call", !.attempt = @ + 1]]
    /\ ops' = [ops EXCEPT ![t].invoked = @ + 1]
    /\ UNCHANGED << svcVars, envVars, pc, call, ret, document, addResult, ncalls >>
    /\ UNCHANGED gwVars
    /\ UNCHANGED registry

(***************************************************************************)
(* The connection manager: initIPFS, checkHealth, the health-check timer  *)
(* and reconnect.                                                         *)
(***************************************************************************)
\* collections.set(name, new Map()) for every predefined collection
ResetPredefined(cols) ==
    [ c \in DOMAIN cols \cup Predefined |->
        IF c \in Predefined THEN << >> ELSE cols[c] ]

\* what a background activity is running: the constructor's initIPFS, or a
\* timer callback in its health check ("health"), in the reconnect of its
\* disconnected branch or in the reconnect of its unhealthy branch
Activity(site) == [op |-> "background", site |-> site]

\* how a background activity ended: what checkHealth returned, how initIPFS
\* ended, and the error its promise was rejected with
Settled(health, connect, error) ==
    [kind |-> "settled", health |-> health, connect |-> connect,
     error |-> error]

\* the rejection that leaves the activity whose initIPFS threw: reconnect()
\* rethrows, and only the disconnected branch of the callback catches
Rejection(site) ==
    IF site = "disconnected" THEN "none" ELSE "IPFSConnectionError"

\* what checkHealth returned in the activity, if it ran
HealthOf(site) == IF site = "unhealthy" THEN "false" ELSE "none"

\* the end of a successful initIPFS without the assignment to the flag
ConnectedKeepsFlag(t, handle) ==
    /\ UNCHANGED isConnected
    /\ ipfs' = handle
    /\ collections' = ResetPredefined(collections)
    /\ timers' = Min(timers + 1, MaxTimers)
    /\ pc' = [pc EXCEPT ![t] = "done"]
    /\ ret' = [ret EXCEPT ![t] =
                 Settled(HealthOf(call[t].site), "returned", "none")]
    /\ retry' = [retry EXCEPT ![t] = RetryOff]
    /\ ops' = [ops EXCEPT ![t] = NoOps]
    /\ UNCHANGED << contentCache, envVars, call, document, addResult, ncalls >>
    /\ UNCHANGED gwVars
    /\ UNCHANGED registry

\* the end of a successful initIPFS: the flag, the predefined collections and
\* one more health-check timer
Connected(t, handle) ==
    /\ isConnected' = TRUE
    /\ ipfs' = handle
    /\ collections' = ResetPredefined(collections)
    /\ timers' = Min(timers + 1, MaxTimers)
    /\ pc' = [pc EXCEPT ![t] = "done"]
    /\ ret' = [ret EXCEPT ![t] =
                 Settled(HealthOf(call[t].site), "returned", "none")]
    /\ retry' = [retry EXCEPT ![t] = RetryOff]
    /\ ops' = [ops EXCEPT ![t] = NoOps]
    /\ UNCHANGED << contentCache, envVars, call, document, addResult, ncalls >>
    /\ UNCHANGED gwVars
    /\ UNCHANGED registry

\* initIPFS up to its first await: a client of the external node, and the
\* first ipfs.version() of withRetry
EnterInitIPFS(t) ==
    /\ ipfs' = "http"
    /\ pc' = [pc EXCEPT ![t] = "version"]
    /\ retry' = [retry EXCEPT ![t] = RetryBegin]
    /\ ops' = [ops EXCEPT ![t] = OpsBegin]

\* withRetry(() => ipfs.version()) returned
ProbeOk(t) ==
    /\ pc[t] = "version"
    /\ retry[t].phase = "call"
    /\ Connected(t, ipfs)

\* withRetry(() => ipfs.version()) threw: fall back to an in-memory node
ProbeExhausted(t) ==
    /\ pc[t] = "version"
    /\ retry[t].phase = "call"
    /\ ~WillRetry(retry[t])
    /\ pc' = [pc EXCEPT ![t] = "embed"]
    /\ retry' = [retry EXCEPT ![t] = RetryOff]
    /\ ops' = [ops EXCEPT ![t] = NoOps]
    /\ UNCHANGED << svcVars, envVars, call, ret, document, addResult, ncalls >>
    /\ UNCHANGED gwVars
    /\ UNCHANGED registry

\* IPFS.create() returned
EmbedOk(t) ==
    /\ pc[t] = "embed"
    /\ Connected(t, "core")

\* IPFS.create() threw: initIPFS throws IPFSConnectionError
EmbedFail(t) ==
    /\ pc[t] = "embed"
    /\ isConnected' = FALSE
    /\ pc' = [pc EXCEPT ![t] = "done"]
    /\ ret' = [ret EXCEPT ![t] =
                 Settled(HealthOf(call[t].site), "threw",
                         Rejection(call[t].site))]
    /\ UNCHANGED << ipfs, collections, contentCache, timers, envVars,
                    call, document, addResult, retry, ops, ncalls >>
    /\ UNCHANGED gwVars
    /\ UNCHANGED registry

\* one firing of a health-check timer
TimerFire(t) ==
    /\ t # "ctor"
    /\ timers > 0
    /\ pc[t] = "idle"
    /\ IF ~isConnected
       THEN /\ EnterInitIPFS(t)
            /\ call' = [call EXCEPT ![t] = Activity("disconnected")]
       ELSE /\ pc' = [pc EXCEPT ![t] = "health"]
            /\ call' = [call EXCEPT ![t] = Activity("health")]
            /\ UNCHANGED << ipfs, retry, ops >>
    /\ UNCHANGED << isConnected, collections, contentCache, timers, envVars,
                    ret, document, addResult, ncalls >>
    /\ UNCHANGED gwVars
    /\ UNCHANGED registry

\* a successful health check that clears the flag
HealthOkDrops(t) ==
    /\ pc[t] = "health"
    /\ pc' = [pc EXCEPT ![t] = "done"]
    /\ isConnected' = FALSE
    /\ ret' = [ret EXCEPT ![t] = Settled("true", "none", "none")]
    /\ UNCHANGED << ipfs, collections, contentCache, timers, envVars, call,
                    document, addResult, retry, ops, ncalls >>
    /\ UNCHANGED gwVars
    /\ UNCHANGED registry

\* checkHealth: ipfs.version() returned
HealthOk(t) ==
    /\ pc[t] = "health"
    /\ pc' = [pc EXCEPT ![t] = "done"]
    /\ ret' = [ret EXCEPT ![t] = Settled("true", "none", "none")]
    /\ UNCHANGED << svcVars, envVars, call, document, addResult, retry, ops,
                    ncalls >>
    /\ UNCHANGED gwVars
    /\ UNCHANGED registry

\* checkHealth: ipfs.version() threw; the callback goes on to reconnect()
HealthFail(t) ==
    /\ pc[t] = "health"
    /\ isConnected' = FALSE
    /\ EnterInitIPFS(t)
    /\ call' = [call EXCEPT ![t] = Activity("unhealthy")]
    /\ UNCHANGED << collections, contentCache, timers, envVars,
                    ret, document, addResult, ncalls >>
    /\ UNCHANGED gwVars
    /\ UNCHANGED registry

\* time passes
Tick ==
    /\ clock < MaxClock
    /\ clock' = clock + 1
    /\ UNCHANGED << svcVars, uuids, added, pinned, taskVars >>
    /\ UNCHANGED gwVars
    /\ UNCHANGED registry

(***************************************************************************)
(* The contract DAttendRegistry: organizations and their members.  Every   *)
(* call is one transaction; a require that fails reverts it, which leaves  *)
(* the storage as it was.                                                  *)
(***************************************************************************)
\* the accounts that send transactions
Accounts == {"a1", "a2"}
\* address(0)
ZeroAddress == "0x0"
\* bytes32(0)
ZeroId == [name |-> "", admin |-> ZeroAddress, timestamp |-> 0]
\* the name organizations are created with, and the one they are renamed to
OrgNames == {"n1"}
NewOrgNames == {"n2"}

\* keccak256(abi.encodePacked(_name, msg.sender, block.timestamp))
OrgIdOf(name, sender, timestamp) ==
    [name |-> name, admin |-> sender, timestamp |-> timestamp]

\* the value of organizations[_orgId] that was never written
NoOrganization ==
    [id |-> ZeroId, name |-> "", admin |-> ZeroAddress, createdAt |-> 0,
     active |-> FALSE]

\* no call yet
NoTx == [fn |-> "none", sender |-> ZeroAddress, status |-> "none"]

\* the contract after its deployment, in the first block
Deployed ==
    [organizations |-> << >>, userToOrgId |-> [a \in Accounts |-> ZeroId],
     orgMembers |-> << >>, timestamp |-> 1, tx |-> NoTx]

\* organizations[_orgId]
OrganizationAt(reg, orgId) ==
    IF orgId \in DOMAIN reg.organizations THEN reg.organizations[orgId]
    ELSE NoOrganization

\* orgMembers[_orgId], as the set of its values
MembersAt(reg, orgId) ==
    IF orgId \in DOMAIN reg.orgMembers THEN reg.orgMembers[orgId] ELSE {}

\* the ids a caller can know of
KnownOrgIds(reg) == (DOMAIN reg.organizations) \cup {ZeroId}

\* the transaction reverts with the reason: only the record of the call changes
Reverts(tx, reason) ==
    registry' = [registry EXCEPT
                   !.tx = [tx EXCEPT !.status = "reverted", !.reason = reason]]

\* the transaction is done with the storage it wrote
Succeeds(reg, tx) ==
    registry' = [reg EXCEPT !.tx = [tx EXCEPT !.status = "ok"]]

\* onlyOrgAdmin(_orgId) and orgExists(_orgId): the reason of the first require
\* that fails, or "" when both pass
AdminGuard(reg, sender, orgId) ==
    IF OrganizationAt(reg, orgId).admin # sender THEN "Not org admin"
    ELSE IF ~(OrganizationAt(reg, orgId).createdAt > 0)
    THEN "Organization not found"
    ELSE ""

\* createOrganization(_name) sent by sender
createOrganization(sender, name) ==
    LET tx == [fn |-> "createOrganization", sender |-> sender, name |-> name,
               status |-> "none", reason |-> ""]
        orgId == OrgIdOf(name, sender, registry.timestamp)
    IN
    /\ IF registry.userToOrgId[sender] # ZeroId
       THEN Reverts(tx, "User already has an organization")
       ELSE Succeeds(
              [registry EXCEPT
                 !.organizations = (orgId :> [id |-> orgId, name |-> name,
                                              admin |-> sender,
                                              createdAt |-> registry.timestamp,
                                              active |-> TRUE]) @@ @,
                 !.userToOrgId[sender] = orgId,
                 !.orgMembers = (orgId :> (MembersAt(registry, orgId)
                                            \cup {sender})) @@ @],
              tx)
    /\ UNCHANGED << svcVars, envVars, taskVars, gwVars >>

\* updateOrganization(_orgId, _name, _active) sent by sender
updateOrganization(sender, orgId, name, active) ==
    LET tx == [fn |-> "updateOrganization", sender |-> sender,
               orgId |-> orgId, name |-> name, active |-> active,
               status |-> "none", reason |-> ""]
    IN
    /\ IF AdminGuard(registry, sender, orgId) # ""
       THEN Reverts(tx, AdminGuard(registry, sender, orgId))
       ELSE Succeeds([registry EXCEPT !.organizations[orgId].name = name,
                                      !.organizations[orgId].active = active],
                     tx)
    /\ UNCHANGED << svcVars, envVars, taskVars, gwVars >>

\* addMember(_orgId, _member, _tokenURI) sent by sender; issued tells whether
\* identityManager.issueCredential returned, or reverted
addMember(sender, orgId, member, issued) ==
    LET tx == [fn |-> "addMember", sender |-> sender, orgId |-> orgId,
               member |-> member, status |-> "none", reason |-> ""]
    IN
    /\ IF AdminGuard(registry, sender, orgId) # ""
       THEN Reverts(tx, AdminGuard(registry, sender, orgId))
       ELSE IF member = ZeroAddress THEN Reverts(tx, "Invalid address")
       ELSE IF member \in MembersAt(registry, orgId)
       THEN Reverts(tx, "Already a member")
       ELSE IF ~issued THEN Reverts(tx, "issueCredential")
       ELSE Succeeds([registry EXCEPT !.orgMembers[orgId] = @ \cup {member}],
                     tx)
    /\ UNCHANGED << svcVars, envVars, taskVars, gwVars >>

\* a removeMember without the require on the admin
removeMemberAny(sender, orgId, member, revoked) ==
    LET tx == [fn |-> "removeMember", sender |-> sender, orgId |-> orgId,
               member |-> member, status |-> "none", reason |-> ""]
    IN
    /\ IF AdminGuard(registry, sender, orgId) # ""
       THEN Reverts(tx, AdminGuard(registry, sender, orgId))
       ELSE IF member \notin MembersAt(registry, orgId)
       THEN Reverts(tx, "Not a member")
       ELSE IF ~revoked THEN Reverts(tx, "revokeCredential")
       ELSE Succeeds([registry EXCEPT !.orgMembers[orgId] = @ \ {member}], tx)
    /\ UNCHANGED << svcVars, envVars, taskVars, gwVars >>

\* removeMember(_orgId, _member, _tokenId) sent by sender; revoked tells
\* whether identityManager.revokeCredential returned, or reverted
removeMember(sender, orgId, member, revoked) ==
    LET tx == [fn |-> "removeMember", sender |-> sender, orgId |-> orgId,
               member |-> member, status |-> "none", reason |-> ""]
    IN
    /\ IF AdminGuard(registry, sender, orgId) # ""
       THEN Reverts(tx, AdminGuard(registry, sender, orgId))
       ELSE IF member \notin MembersAt(registry, orgId)
       THEN Reverts(tx, "Not a member")
       ELSE IF member = OrganizationAt(registry, orgId).admin
       THEN Reverts(tx, "Cannot remove admin")
       ELSE IF ~revoked THEN Reverts(tx, "revokeCredential")
       ELSE Succeeds([registry EXCEPT !.orgMembers[orgId] = @ \ {member}], tx)
    /\ UNCHANGED << svcVars, envVars, taskVars, gwVars >>

\* the next block: block.timestamp grows
Mine ==
    /\ registry.timestamp <= MaxClock
    /\ registry' = [registry EXCEPT !.timestamp = @ + 1]
    /\ UNCHANGED << svcVars, envVars, taskVars, gwVars >>

(***************************************************************************)
(* The state after `new IPFSService()`: the constructor has run initIPFS  *)
(* up to its first await.                                                 *)
(***************************************************************************)
Init ==
    /\ isConnected = FALSE
    /\ ipfs = "http"
    /\ collections = << >>
    /\ contentCache = << >>
    /\ timers = 0
    /\ clock = 0
    /\ uuids = 0
    /\ added = {}
    /\ pinned = {}
    /\ pc = [t \in Tasks |-> IF t = "ctor" THEN "version" ELSE "idle"]
    /\ call = [t \in Tasks |->
                 IF t = "ctor" THEN Activity("constructor") ELSE NoCall]
    /\ ret = [t \in Tasks |-> NoRet]
    /\ document = [t \in Callers |-> NoDoc]
    /\ addResult = [t \in Callers |-> NoResult]
    /\ retry = [t \in Tasks |-> IF t = "ctor" THEN RetryBegin ELSE RetryOff]
    /\ ops = [t \in Tasks |-> IF t = "ctor" THEN OpsBegin ELSE NoOps]
    /\ ncalls = 0
    /\ gatewayCache = << >>
    /\ resolvedUrlCache = << >>
    /\ fetch = [t \in Callers |-> NoFetch]
    /\ registry = Deployed

(***************************************************************************)
(* The document store.                                                    *)
(***************************************************************************)
\* Disconnected without the test of the flag
DisconnectedNever == FALSE

\* if (!this.isConnected) at the head of every public method
Disconnected == ~isConnected

\* a JavaScript value used as a condition
Truthy(v) == v # Undefined /\ v # ""

\* getCollection: the collections with the named one created when missing
GetCollection(cols, name) ==
    IF name \in DOMAIN cols THEN cols ELSE cols @@ (name :> << >>)

\* the index of a collection: its Map, empty while the collection is missing
Index(cols, name) == IF name \in DOMAIN cols THEN cols[name] ELSE << >>

\* collectionMap.set(id, doc) on getCollection(name)
PutDocument(cols, name, id, doc) ==
    [GetCollection(cols, name) EXCEPT ![name] = MapSet(@, id, doc)]

\* contentCache.set(cid, {content, timestamp: Date.now()})
PutCache(cache, cid, doc, now) ==
    MapSet(cache, cid, [content |-> doc, timestamp |-> now])

\* the document create builds; t1 and t2 are its two readings of the clock
NewDocument(name, data, id, t1, t2) ==
    [id |-> id, type |-> name, data |-> data,
     createdAt |-> NewDate(t1), updatedAt |-> NewDate(t2)]

\* UpdatedDocument with the data replaced instead of merged
UpdatedDocumentReplaces(doc, data, now) ==
    [doc EXCEPT !.data = data, !.updatedAt = NewDate(now)]

\* UpdatedDocument without the new updatedAt
UpdatedDocumentStale(doc, data, now) ==
    [doc EXCEPT !.data = ObjSpread(doc.data, data)]

\* { ...document, data: { ...document.data, ...data }, updatedAt: new Date() }
UpdatedDocument(doc, data, now) ==
    [doc EXCEPT !.data = ObjSpread(doc.data, data), !.updatedAt = NewDate(now)]

\* the catch clause of create, update and uploadFile
Rethrow(error) ==
    IF error.name \in {"IPFSConnectionError", "IPFSOperationError"}
    THEN error
    ELSE [kind |-> "error", name |-> "IPFSOperationError",
          attempts |-> 0, cause |-> error]

\* a call that ends in its first step
Finish(t, c, result) ==
    /\ call' = [call EXCEPT ![t] = c]
    /\ ret' = [ret EXCEPT ![t] = result]
    /\ pc' = [pc EXCEPT ![t] = "done"]
    /\ ncalls' = ncalls + 1
    /\ UNCHANGED << document, addResult, retry, ops >>

\* a call that goes on to withRetry(() => ipfs.add(content))
BeginAdd(t, c, doc) ==
    /\ call' = [call EXCEPT ![t] = c @@ ("handle" :> ipfs)]
    /\ document' = [document EXCEPT ![t] = doc]
    /\ retry' = [retry EXCEPT ![t] = RetryBegin]
    /\ ops' = [ops EXCEPT ![t] = OpsBegin]
    /\ pc' = [pc EXCEPT ![t] = "add"]
    /\ ncalls' = ncalls + 1
    /\ UNCHANGED << ret, addResult >>

\* a caller that is in no call can make one
CanCall(t) == pc[t] = "idle"

\* create(collection, data) up to its first await
CreateCall(t, name, data) ==
    LET c == [op |-> "create", collection |-> name, data |-> data] IN
    /\ CanCall(t)
    /\ IF Disconnected
       THEN /\ Finish(t, c, ConnectionError)
            /\ UNCHANGED << svcVars, envVars >>
       ELSE /\ \E t2 \in { clock, Min(clock + 1, MaxClock) } :
                 /\ clock' = t2
                 /\ IF Truthy(ObjGet(data, "id"))
                    THEN /\ BeginAdd(t, c, NewDocument(name, data, ObjGet(data, "id"),
                                                       clock, t2))
                         /\ UNCHANGED uuids
                    ELSE /\ uuids < MaxUuid
                         /\ uuids' = uuids + 1
                         /\ BeginAdd(t, c, NewDocument(name, data, UuidPool[uuids + 1],
                                                       clock, t2))
            /\ UNCHANGED << svcVars, added, pinned >>
    /\ UNCHANGED gwVars
    /\ UNCHANGED registry

\* ipfs.add(content) returned: the content is stored; go on to pin it
Added(t, content, size) ==
    /\ pc[t] = "add"
    /\ retry[t].phase = "call"
    /\ added' = added \cup {content}
    /\ addResult' = [addResult EXCEPT ![t] =
                       [cid |-> CidOf(content), size |-> size]]
    /\ retry' = [retry EXCEPT ![t] = RetryBegin]
    /\ ops' = [ops EXCEPT ![t] = OpsBegin]
    /\ pc' = [pc EXCEPT ![t] = "pin"]
    /\ UNCHANGED << svcVars, clock, uuids, pinned, call, ret, document, ncalls >>

\* CreateAdded with the index written before the pin
CreateAddedIndexes(t) ==
    /\ call[t].op = "create"
    /\ pc[t] = "add"
    /\ retry[t].phase = "call"
    /\ added' = added \cup {Stringify(document[t])}
    /\ addResult' = [addResult EXCEPT ![t] =
                       [cid |-> CidOf(Stringify(document[t])), size |-> 0]]
    /\ retry' = [retry EXCEPT ![t] = RetryBegin]
    /\ ops' = [ops EXCEPT ![t] = OpsBegin]
    /\ pc' = [pc EXCEPT ![t] = "pin"]
    /\ collections' = PutDocument(collections, call[t].collection,
                                  document[t].id, document[t])
    /\ UNCHANGED << isConnected, ipfs, contentCache, timers, clock, uuids, pinned,
                    call, ret, document, ncalls >>
    /\ UNCHANGED gwVars
    /\ UNCHANGED registry

\* create: withRetry(() => ipfs.add(JSON.stringify(document))) returned
CreateAdded(t) ==
    /\ call[t].op = "create"
    /\ Added(t, Stringify(document[t]), 0)
    /\ UNCHANGED gwVars
    /\ UNCHANGED registry

\* the end of a call that was suspended
Settle(t, result) ==
    /\ ret' = [ret EXCEPT ![t] = result]
    /\ pc' = [pc EXCEPT ![t] = "done"]
    /\ retry' = [retry EXCEPT ![t] = RetryOff]
    /\ document' = [document EXCEPT ![t] = NoDoc]
    /\ addResult' = [addResult EXCEPT ![t] = NoResult]
    /\ UNCHANGED << call, ncalls >>

\* ipfs.pin.add(cid) returned
Pinned(t) ==
    /\ pc[t] = "pin"
    /\ retry[t].phase = "call"
    /\ pinned' = pinned \cup {addResult[t].cid}
    /\ UNCHANGED << clock, uuids, added, ops >>

\* create after its pin: the index, the content cache, the return
CreatePinned(t) ==
    /\ call[t].op = "create"
    /\ Pinned(t)
    /\ collections' = PutDocument(collections, call[t].collection,
                                  document[t].id, document[t])
    /\ contentCache' = PutCache(contentCache, addResult[t].cid, document[t], clock)
    /\ Settle(t, [kind |-> "doc", doc |-> document[t]])
    /\ UNCHANGED << isConnected, ipfs, timers >>
    /\ UNCHANGED gwVars
    /\ UNCHANGED registry

\* CallFailed with the index written all the same
CallFailedIndexes(t, e, r) ==
    /\ pc[t] \in {"add", "pin"}
    /\ retry[t].phase = "call"
    /\ ~WillRetry(retry[t])
    /\ Settle(t, Rethrow(OperationError(AfterCatch(retry[t], e, r))))
    /\ ops' = [ops EXCEPT ![t].thrown = Append(@, e)]
    /\ collections' = IF call[t].op \in {"create", "update"}
                      THEN PutDocument(collections, call[t].collection,
                                       document[t].id, document[t])
                      ELSE collections
    /\ UNCHANGED << isConnected, ipfs, contentCache, timers, envVars >>
    /\ UNCHANGED gwVars
    /\ UNCHANGED registry

\* withRetry threw in create, update or uploadFile: the call throws its error
CallFailed(t, e, r) ==
    /\ pc[t] \in {"add", "pin"}
    /\ retry[t].phase = "call"
    /\ ~WillRetry(retry[t])
    /\ Settle(t, Rethrow(OperationError(AfterCatch(retry[t], e, r))))
    /\ ops' = [ops EXCEPT ![t].thrown = Append(@, e)]
    /\ UNCHANGED << svcVars, envVars >>
    /\ UNCHANGED gwVars
    /\ UNCHANGED registry

\* the activity is over: its outcome is taken
Return(t) ==
    /\ pc[t] = "done"
    /\ pc' = [pc EXCEPT ![t] = "idle"]
    /\ call' = [call EXCEPT ![t] = NoCall]
    /\ ret' = [ret EXCEPT ![t] = NoRet]
    /\ ops' = [ops EXCEPT ![t] = NoOps]
    /\ UNCHANGED << svcVars, envVars, document, addResult, retry, ncalls >>
    /\ UNCHANGED gwVars
    /\ UNCHANGED registry

\* findById that throws for an id it does not find
FindByIdThrows(t, name, id) ==
    LET c == [op |-> "findById", collection |-> name, id |-> id] IN
    /\ CanCall(t)
    /\ IF Disconnected
       THEN /\ Finish(t, c, ConnectionError)
            /\ UNCHANGED collections
       ELSE /\ collections' = GetCollection(collections, name)
            /\ Finish(t, c, IF MapHas(Index(collections, name), id)
                             THEN [kind |-> "doc",
                                   doc |-> MapGet(Index(collections, name), id)]
                             ELSE [kind |-> "error", name |-> "IPFSOperationError",
                                   attempts |-> 0, cause |-> "not found"])
    /\ UNCHANGED << isConnected, ipfs, contentCache, timers, envVars >>
    /\ UNCHANGED gwVars
    /\ UNCHANGED registry

\* findById(collection, id)
FindByIdCall(t, name, id) ==
    LET c == [op |-> "findById", collection |-> name, id |-> id] IN
    /\ CanCall(t)
    /\ IF Disconnected
       THEN /\ Finish(t, c, ConnectionError)
            /\ UNCHANGED collections
       ELSE /\ collections' = GetCollection(collections, name)
            /\ Finish(t, c, IF MapHas(Index(collections, name), id)
                             THEN [kind |-> "doc",
                                   doc |-> MapGet(Index(collections, name), id)]
                             ELSE Null)
    /\ UNCHANGED << isConnected, ipfs, contentCache, timers, envVars >>
    /\ UNCHANGED gwVars
    /\ UNCHANGED registry

\* doc[key] of a document, as far as === against a filter value can tell
DocProp(doc, key) ==
    CASE key = "id" -> doc.id
      [] key = "type" -> doc.type
      [] key \in {"data", "createdAt", "updatedAt"} -> ObjectRef
      [] OTHER -> Undefined

\* doc[parent][child]
PropOf(doc, parent, child) ==
    IF parent = "data" THEN ObjGet(doc.data, child) ELSE Undefined

\* the callback of Object.entries(filter).every
EntryMatches(doc, key, value) ==
    IF Len(key) > 1
    THEN Truthy(DocProp(doc, key[1])) /\ PropOf(doc, key[1], key[2]) = value
    ELSE \/ DocProp(doc, key[1]) = value
         \/ (Truthy(DocProp(doc, "data")) /\ ObjGet(doc.data, key[1]) = value)

\* Matches with some in the place of every
MatchesSome(doc, filter) ==
    \E i \in 1..Len(filter) : EntryMatches(doc, filter[i].k, filter[i].v)

\* Object.entries(filter).every(...)
Matches(doc, filter) ==
    \A i \in 1..Len(filter) : EntryMatches(doc, filter[i].k, filter[i].v)

\* Array.from(collectionMap.values()).filter(...)
FilterDocuments(m, filter) ==
    SelectSeq(MapValues(m), LAMBDA doc : Matches(doc, filter))

\* findMany(collection, filter)
FindManyCall(t, name, filter) ==
    LET c == [op |-> "findMany", collection |-> name, filter |-> filter] IN
    /\ CanCall(t)
    /\ IF Disconnected
       THEN /\ Finish(t, c, ConnectionError)
            /\ UNCHANGED collections
       ELSE /\ collections' = GetCollection(collections, name)
            /\ Finish(t, c, [kind |-> "docs",
                              docs |-> FilterDocuments(Index(collections, name),
                                                       filter)])
    /\ UNCHANGED << isConnected, ipfs, contentCache, timers, envVars >>
    /\ UNCHANGED gwVars
    /\ UNCHANGED registry

\* update(collection, id, data) up to its first suspension
UpdateCall(t, name, id, data) ==
    LET c == [op |-> "update", collection |-> name, id |-> id, data |-> data] IN
    /\ CanCall(t)
    /\ IF Disconnected
       THEN /\ Finish(t, c, ConnectionError)
            /\ UNCHANGED collections
       ELSE /\ collections' = GetCollection(collections, name)
            /\ IF MapHas(Index(collections, name), id)
               THEN BeginAdd(t, c, UpdatedDocument(MapGet(Index(collections, name), id),
                                                   data, clock))
               ELSE Finish(t, c, Null)
    /\ UNCHANGED << isConnected, ipfs, contentCache, timers, envVars >>
    /\ UNCHANGED gwVars
    /\ UNCHANGED registry

\* update: withRetry(() => ipfs.add(JSON.stringify(updatedDocument))) returned
UpdateAdded(t) ==
    /\ call[t].op = "update"
    /\ Added(t, Stringify(document[t]), 0)
    /\ UNCHANGED gwVars
    /\ UNCHANGED registry

\* update after its pin: the index, the content cache, the return
UpdatePinned(t) ==
    /\ call[t].op = "update"
    /\ Pinned(t)
    /\ collections' = PutDocument(collections, call[t].collection,
                                  call[t].id, document[t])
    /\ contentCache' = PutCache(contentCache, addResult[t].cid, document[t], clock)
    /\ Settle(t, [kind |-> "doc", doc |-> document[t]])
    /\ UNCHANGED << isConnected, ipfs, timers >>
    /\ UNCHANGED gwVars
    /\ UNCHANGED registry

\* delete that empties the collection of the id it removes
DeleteCallClears(t, name, id) ==
    LET c == [op |-> "delete", collection |-> name, id |-> id] IN
    /\ CanCall(t)
    /\ IF Disconnected
       THEN /\ Finish(t, c, ConnectionError)
            /\ UNCHANGED collections
       ELSE IF MapHas(Index(collections, name), id)
       THEN /\ collections' = [GetCollection(collections, name) EXCEPT
                                  ![name] = << >>]
            /\ Finish(t, c, [kind |-> "bool", value |-> TRUE])
       ELSE /\ collections' = GetCollection(collections, name)
            /\ Finish(t, c, [kind |-> "bool", value |-> FALSE])
    /\ UNCHANGED << isConnected, ipfs, contentCache, timers, envVars >>
    /\ UNCHANGED gwVars
    /\ UNCHANGED registry

\* delete(collection, id)
DeleteCall(t, name, id) ==
    LET c == [op |-> "delete", collection |-> name, id |-> id] IN
    /\ CanCall(t)
    /\ IF Disconnected
       THEN /\ Finish(t, c, ConnectionError)
            /\ UNCHANGED collections
       ELSE IF MapHas(Index(collections, name), id)
       THEN /\ collections' = [GetCollection(collections, name) EXCEPT
                                  ![name] = MapDelete(@, id)]
            /\ Finish(t, c, [kind |-> "bool", value |-> TRUE])
       ELSE /\ collections' = GetCollection(collections, name)
            /\ Finish(t, c, [kind |-> "bool", value |-> FALSE])
    /\ UNCHANGED << isConnected, ipfs, contentCache, timers, envVars >>
    /\ UNCHANGED gwVars
    /\ UNCHANGED registry

\* uploadFile(file, options) up to its first await
UploadFileCall(t, file) ==
    LET c == [op |-> "uploadFile", file |-> file] IN
    /\ CanCall(t)
    /\ IF Disconnected
       THEN Finish(t, c, ConnectionError)
       ELSE BeginAdd(t, c, NoDoc)
    /\ UNCHANGED << svcVars, envVars >>
    /\ UNCHANGED gwVars
    /\ UNCHANGED registry

\* uploadFile: withRetry(() => ipfs.add({path, content})) returned
UploadAdded(t) ==
    /\ call[t].op = "uploadFile"
    /\ Added(t, FileContent(call[t].file), SizeOf(call[t].file))
    /\ UNCHANGED gwVars
    /\ UNCHANGED registry

\* uploadFile after its pin
UploadPinned(t) ==
    /\ call[t].op = "uploadFile"
    /\ Pinned(t)
    /\ Settle(t, [kind |-> "upload", cid |-> addResult[t].cid,
                   size |-> addResult[t].size])
    /\ UNCHANGED svcVars
    /\ UNCHANGED gwVars
    /\ UNCHANGED registry

(***************************************************************************)
(* The gateway resolver, ipfsGateway.  A string the resolver handles is a *)
(* record: its form (an ipfs:// URL, a bare content id that CID.parse     *)
(* accepts, one that it rejects, an http URL, the empty string), the      *)
(* gateway of an http URL built from a gateway, the content id and the    *)
(* path after it.                                                         *)
(***************************************************************************)
\* the gateways of the fallback list, in their order
PUBLIC_GATEWAYS ==
    << "https://ipfs.io/ipfs/", "https://gateway.ipfs.io/ipfs/",
       "https://cloudflare-ipfs.com/ipfs/", "https://dweb.link/ipfs/" >>

\* the ttl of gatewayCache, of resolvedUrlCache and of the service's
\* contentCache, in milliseconds
gatewayCacheTtl == 1000 * 60 * 60 * 24
resolvedUrlCacheTtl == 1000 * 60 * 30
cacheTTL == 1000 * 60 * 10

EmptyString == [form |-> "empty", gateway |-> "", id |-> "", path |-> ""]
\* `ipfs://${id}${path}`
IpfsUrl(id, path) == [form |-> "ipfs", gateway |-> "", id |-> id, path |-> path]
\* a bare content id that CID.parse accepts
BareCid(id) == [form |-> "cid", gateway |-> "", id |-> id, path |-> ""]
\* a string that starts like a content id and that CID.parse rejects
BadCid(id) == [form |-> "badcid", gateway |-> "", id |-> id, path |-> ""]
\* `${gateway}${id}${path}`, or any other http URL when gateway is its origin
HttpUrl(gateway, id, path) ==
    [form |-> "http", gateway |-> gateway, id |-> id, path |-> path]

\* the locators callers fetch
Locators ==
    { IpfsUrl("Qm1", ""), BadCid("Qmx"), HttpUrl("https://example.org/", "f", "") }

\* what ipfs.cat of the local node yields: JSON text of an object, the JSON
\* text null, other text, nothing
CatContents ==
    { [json |-> TRUE, body |-> "j1"], [json |-> TRUE, body |-> "null"],
      [json |-> FALSE, body |-> "t1"], [json |-> FALSE, body |-> ""] }

\* what a gateway answers: the declared content type, whether a body declared
\* as JSON parses, and the body
Responses ==
    { [type |-> "application/json", parses |-> TRUE, body |-> "j1"],
      [type |-> "application/json", parses |-> FALSE, body |-> "x1"],
      [type |-> "text/plain", parses |-> FALSE, body |-> "t1"],
      [type |-> "image/png", parses |-> FALSE, body |-> "b1"] }

\* An LRU cache with a ttl and updateAgeOnGet: a sequence of entries, each
\* with the time its age counts from.
LruFresh(e, now, ttl) == now - e.start <= ttl

LruHas(cache, key, now, ttl) ==
    \E i \in 1..Len(cache) : cache[i].key = key /\ LruFresh(cache[i], now, ttl)

LruGet(cache, key) ==
    LET i == CHOOSE i \in 1..Len(cache) : cache[i].key = key IN cache[i].value

\* a get(key) that leaves the age of the entry as it is
LruAfterGetKeepsAge(cache, key, now, ttl) ==
    SelectSeq(cache, LAMBDA e : e.key # key \/ LruFresh(e, now, ttl))

\* the cache after get(key): a fresh entry becomes the most recently used
\* one and has its age reset, a stale one is dropped
LruAfterGet(cache, key, now, ttl) ==
    SelectSeq(cache, LAMBDA e : e.key # key)
    \o [ i \in 1..Len(SelectSeq(cache, LAMBDA e :
                                  e.key = key /\ LruFresh(e, now, ttl))) |->
          [ SelectSeq(cache, LAMBDA e : e.key = key)[i] EXCEPT !.start = now ] ]

\* the cache after set(key, value)
LruSet(cache, key, value, now) ==
    Append(SelectSeq(cache, LAMBDA e : e.key # key),
           [key |-> key, value |-> value, start |-> now])

\* getCidFromUrl(ipfsUrl): the content id of an ipfs:// URL, without its path
getCidFromUrl(ipfsUrl) ==
    IF ipfsUrl.form = "ipfs" THEN BareCid(ipfsUrl.id) ELSE EmptyString

\* the entry getHttpUrl and fetchContent put into resolvedUrlCache
Resolved(url, gateway, now) ==
    [url |-> url, gateway |-> gateway, timestamp |-> now]

\* getHttpUrl(ipfsUrl, gateway) on the cache: the URL it returns and the
\* cache it leaves
getHttpUrl(cache, ipfsUrl, gateway, now) ==
    LET got == LruAfterGet(cache, ipfsUrl, now, resolvedUrlCacheTtl)
        httpUrl == HttpUrl(gateway, ipfsUrl.id, ipfsUrl.path)
    IN  IF ipfsUrl.form = "empty"
        THEN [url |-> EmptyString, cache |-> cache]
        ELSE IF LruHas(cache, ipfsUrl, now, resolvedUrlCacheTtl)
        THEN [url |-> LruGet(cache, ipfsUrl).url, cache |-> got]
        ELSE IF ipfsUrl.form \in {"ipfs", "cid"}
        THEN [url |-> httpUrl,
              cache |-> LruSet(got, ipfsUrl, Resolved(httpUrl, gateway, now), now)]
        ELSE IF ipfsUrl.form = "http"
        THEN [url |-> ipfsUrl, cache |-> got]
        ELSE [url |-> EmptyString, cache |-> got]

\* JSON.parse(content) of getContentByCid, or the text as it is
ParseCat(content) ==
    [kind |-> IF content.json THEN "json" ELSE "text", body |-> content.body]

\* the data fetchContent makes of a gateway's response, by its content type
Decode(resp) ==
    [kind |-> CASE resp.type = "application/json" -> "json"
                [] resp.type = "text/plain" -> "text"
                [] OTHER -> "buffer",
     body |-> resp.body]

\* if (content): the empty string and null are no content
TruthyContent(data) ==
    /\ ~(data.kind = "text" /\ data.body = "")
    /\ ~(data.kind = "json" /\ data.body = "null")

\* the key of gatewayCache: the content id of an ipfs:// URL, any other
\* locator as it is
CidKey(ipfsUrl) ==
    IF ipfsUrl.form = "ipfs" THEN getCidFromUrl(ipfsUrl) ELSE ipfsUrl

\* the error fetchContent throws after the last gateway
FetchError(ipfsUrl) ==
    [kind |-> "error", name |-> "Error", message |-> ipfsUrl]

\* one turn of the loop over the gateways up to its await: getHttpUrl for
\* gateway number i, then axios.get of the URL it returned
TryGateway(t, ipfsUrl, i, local, requests) ==
    LET r == getHttpUrl(resolvedUrlCache, ipfsUrl, PUBLIC_GATEWAYS[i], clock)
    IN  /\ resolvedUrlCache' = r.cache
        /\ fetch' = [fetch EXCEPT ![t] =
                       [cid |-> CidKey(ipfsUrl), gateway |-> i,
                        httpUrl |-> r.url, local |-> local,
                        requests |-> Append(requests, r.url)]]
        /\ pc' = [pc EXCEPT ![t] = "gateway"]

\* fetchContent(ipfsUrl) up to its first await, or to its return from the cache
FetchCall(t, ipfsUrl) ==
    LET c == [op |-> "fetchContent", ipfsUrl |-> ipfsUrl]
        cid == CidKey(ipfsUrl)
        got == LruAfterGet(gatewayCache, cid, clock, gatewayCacheTtl)
    IN
    /\ CanCall(t)
    /\ IF LruHas(gatewayCache, cid, clock, gatewayCacheTtl)
       THEN /\ gatewayCache' = got
            /\ Finish(t, c, [kind |-> "content",
                             data |-> LruGet(gatewayCache, cid).data])
            /\ fetch' = [fetch EXCEPT ![t] = [NoFetch EXCEPT !.cid = cid]]
            /\ UNCHANGED << resolvedUrlCache, contentCache >>
       ELSE IF Disconnected
       THEN /\ gatewayCache' = got
            /\ call' = [call EXCEPT ![t] = c]
            /\ ncalls' = ncalls + 1
            /\ TryGateway(t, ipfsUrl, 1, "threw", << >>)
            /\ UNCHANGED << contentCache, ret, document, addResult, retry, ops >>
       ELSE IF /\ MapHas(contentCache, cid.id)
               /\ clock - MapGet(contentCache, cid.id).timestamp < cacheTTL
               /\ ~TruthyContent(MapGet(contentCache, cid.id).content)
       THEN /\ gatewayCache' = got
            /\ call' = [call EXCEPT ![t] = c]
            /\ ncalls' = ncalls + 1
            /\ TryGateway(t, ipfsUrl, 1, "falsy", << >>)
            /\ UNCHANGED << contentCache, ret, document, addResult, retry, ops >>
       ELSE IF /\ MapHas(contentCache, cid.id)
               /\ clock - MapGet(contentCache, cid.id).timestamp < cacheTTL
       THEN /\ gatewayCache' =
                 LruSet(got, cid,
                        [data |-> MapGet(contentCache, cid.id).content,
                         timestamp |-> clock], clock)
            /\ Finish(t, c, [kind |-> "content",
                             data |-> MapGet(contentCache, cid.id).content])
            /\ fetch' = [fetch EXCEPT ![t] =
                           [NoFetch EXCEPT !.cid = cid, !.local = "content"]]
            /\ UNCHANGED << resolvedUrlCache, contentCache >>
       ELSE /\ gatewayCache' = got
            /\ call' = [call EXCEPT ![t] = c]
            /\ ncalls' = ncalls + 1
            /\ pc' = [pc EXCEPT ![t] = "cat"]
            /\ retry' = [retry EXCEPT ![t] = RetryBegin]
            /\ ops' = [ops EXCEPT ![t] = OpsBegin]
            /\ fetch' = [fetch EXCEPT ![t] = [NoFetch EXCEPT !.cid = cid]]
            /\ UNCHANGED << resolvedUrlCache, contentCache, ret, document,
                            addResult >>
    /\ UNCHANGED << isConnected, ipfs, collections, timers, envVars, registry >>

\* getContentByCid: withRetry(() => ipfs.cat(cid)) returned; fetchContent
\* returns content that is truthy and goes to the gateways with any other
CatOk(t, content) ==
    LET data == ParseCat(content) IN
    /\ pc[t] = "cat"
    /\ retry[t].phase = "call"
    /\ contentCache' =
         IF content.json
         THEN MapSet(contentCache, fetch[t].cid.id,
                     [content |-> data, timestamp |-> clock])
         ELSE contentCache
    /\ retry' = [retry EXCEPT ![t] = RetryOff]
    /\ IF TruthyContent(data)
       THEN /\ gatewayCache' =
                 LruSet(gatewayCache, fetch[t].cid,
                        [data |-> data, timestamp |-> clock], clock)
            /\ fetch' = [fetch EXCEPT ![t].local = "content"]
            /\ ret' = [ret EXCEPT ![t] = [kind |-> "content", data |-> data]]
            /\ pc' = [pc EXCEPT ![t] = "done"]
            /\ UNCHANGED resolvedUrlCache
       ELSE /\ TryGateway(t, call[t].ipfsUrl, 1, "falsy", << >>)
            /\ UNCHANGED << gatewayCache, ret >>
    /\ UNCHANGED << isConnected, ipfs, collections, timers, envVars, call,
                    document, addResult, ops, ncalls, registry >>

\* getContentByCid: withRetry threw; fetchContent logs and goes to the gateways
CatExhausted(t, e, r) ==
    /\ pc[t] = "cat"
    /\ retry[t].phase = "call"
    /\ ~WillRetry(retry[t])
    /\ retry' = [retry EXCEPT ![t] = RetryOff]
    /\ ops' = [ops EXCEPT ![t].thrown = Append(@, e)]
    /\ TryGateway(t, call[t].ipfsUrl, 1, "threw", << >>)
    /\ UNCHANGED << svcVars, envVars, call, ret, document, addResult, ncalls,
                    gatewayCache, registry >>

\* the catch of the loop: the next gateway, or the throw after the last
NextGateway(t) ==
    /\ IF fetch[t].gateway < Len(PUBLIC_GATEWAYS)
       THEN /\ TryGateway(t, call[t].ipfsUrl, fetch[t].gateway + 1,
                          fetch[t].local, fetch[t].requests)
            /\ UNCHANGED ret
       ELSE /\ ret' = [ret EXCEPT ![t] = FetchError(call[t].ipfsUrl)]
            /\ pc' = [pc EXCEPT ![t] = "done"]
            /\ UNCHANGED << resolvedUrlCache, fetch >>
    /\ UNCHANGED << svcVars, envVars, call, document, addResult, retry, ops,
                    ncalls, gatewayCache, registry >>

\* axios.get(httpUrl) returned: the data is decoded, both caches are set and
\* the data is returned; a JSON body that does not parse is a failed gateway
GatewayResponse(t, resp) ==
    /\ pc[t] = "gateway"
    /\ fetch[t].httpUrl.form = "http"
    /\ IF resp.type = "application/json" /\ ~resp.parses
       THEN NextGateway(t)
       ELSE /\ gatewayCache' =
                 LruSet(gatewayCache, fetch[t].cid,
                        [data |-> Decode(resp), timestamp |-> clock], clock)
            /\ resolvedUrlCache' =
                 LruSet(resolvedUrlCache, call[t].ipfsUrl,
                        Resolved(fetch[t].httpUrl,
                                 PUBLIC_GATEWAYS[fetch[t].gateway], clock),
                        clock)
            /\ ret' = [ret EXCEPT ![t] =
                         [kind |-> "content", data |-> Decode(resp)]]
            /\ pc' = [pc EXCEPT ![t] = "done"]
            /\ UNCHANGED << svcVars, envVars, call, document, addResult, retry,
                            ops, ncalls, fetch, registry >>

\* axios.get(httpUrl) threw
GatewayFail(t) ==
    /\ pc[t] = "gateway"
    /\ NextGateway(t)

\* the caller takes the outcome of its fetchContent
FetchReturn(t) ==
    /\ pc[t] = "done"
    /\ call[t].op = "fetchContent"
    /\ pc' = [pc EXCEPT ![t] = "idle"]
    /\ call' = [call EXCEPT ![t] = NoCall]
    /\ ret' = [ret EXCEPT ![t] = NoRet]
    /\ ops' = [ops EXCEPT ![t] = NoOps]
    /\ fetch' = [fetch EXCEPT ![t] = NoFetch]
    /\ UNCHANGED << svcVars, envVars, document, addResult, retry, ncalls,
                    gatewayCache, resolvedUrlCache, registry >>

\* a caller calls getHttpUrl(ipfsUrl, gateway), which returns at once
GetHttpUrlCall(t, ipfsUrl, gateway) ==
    LET r == getHttpUrl(resolvedUrlCache, ipfsUrl, gateway, clock) IN
    /\ CanCall(t)
    /\ Finish(t, [op |-> "getHttpUrl", ipfsUrl |-> ipfsUrl,
                  gateway |-> gateway],
              [kind |-> "url", url |-> r.url])
    /\ resolvedUrlCache' = r.cache
    /\ UNCHANGED << svcVars, envVars, gatewayCache, fetch, registry >>

\* [...resolvedUrlCache.entries()], from the most recently used entry to
\* the least, filtered by the timestamp and mapped to the gateway
RecentSuccessful(cache, now) ==
    LET live == SelectSeq(cache, LAMBDA e :
                    /\ LruFresh(e, now, resolvedUrlCacheTtl)
                    /\ now - e.value.timestamp < 1000 * 60 * 30)
    IN  [ i \in 1..Len(live) |-> live[Len(live) + 1 - i].value.gateway ]

\* gatewayCounts[gateway]
GatewayCount(recent, gateway) ==
    Len(SelectSeq(recent, LAMBDA g : g = gateway))

\* the keys of gatewayCounts, in the order they were first assigned
RECURSIVE CountedGateways(_)
CountedGateways(recent) ==
    IF recent = << >> THEN << >>
    ELSE << Head(recent) >>
         \o CountedGateways(SelectSeq(Tail(recent),
                                      LAMBDA g : g # Head(recent)))

\* sort((a, b) => countB - countA): descending, equal counts keep their order
RECURSIVE SortByCount(_, _)
SortByCount(names, recent) ==
    IF names = << >> THEN << >>
    ELSE LET i == CHOOSE i \in 1..Len(names) :
                    /\ \A j \in 1..Len(names) :
                          GatewayCount(recent, names[j])
                            <= GatewayCount(recent, names[i])
                    /\ \A j \in 1..(i - 1) :
                          GatewayCount(recent, names[j])
                            < GatewayCount(recent, names[i])
         IN  << names[i] >>
             \o SortByCount(SubSeq(names, 1, i - 1)
                              \o SubSeq(names, i + 1, Len(names)), recent)

\* getWorkingGateways() at time now
getWorkingGateways(cache, now) ==
    SortByCount(CountedGateways(RecentSuccessful(cache, now)),
                RecentSuccessful(cache, now))

\* a caller calls getWorkingGateways(), which returns at once
GetWorkingGatewaysCall(t) ==
    /\ CanCall(t)
    /\ Finish(t, [op |-> "getWorkingGateways"],
              [kind |-> "gateways",
               list |-> getWorkingGateways(resolvedUrlCache, clock)])
    /\ UNCHANGED << svcVars, envVars, gwVars, registry >>

\* what a gateway that works answers on a URL: the content that the content
\* id and the path of the URL address
ContentAt(httpUrl) ==
    [type |-> "text/plain", parses |-> FALSE,
     body |-> << httpUrl.id, httpUrl.path >>]

\* a long time passes while nothing runs: d milliseconds
Elapse(d) ==
    /\ clock + d <= MaxTtls * gatewayCacheTtl
    /\ clock' = clock + d
    /\ UNCHANGED << svcVars, uuids, added, pinned, taskVars >>
    /\ UNCHANGED gwVars
    /\ UNCHANGED registry

(***************************************************************************)
(* Specifications.                                                        *)
(***************************************************************************)
\* no other task is in the middle of something
Quiet(t) == \A u \in Tasks \ {t} : pc[u] = "idle"

\* the calls a caller can make, with arguments from the given sets
StoreCall(t, names, creates, ids, updates, filters, files) ==
    \/ \E name \in names, data \in creates : CreateCall(t, name, data)
    \/ \E name \in names, id \in ids : FindByIdCall(t, name, id)
    \/ \E name \in names, filter \in filters : FindManyCall(t, name, filter)
    \/ \E name \in names, id \in ids, data \in updates :
           UpdateCall(t, name, id, data)
    \/ \E name \in names, id \in ids : DeleteCall(t, name, id)
    \/ \E file \in files : UploadFileCall(t, file)

\* the steps of a call that was suspended
StoreStep(t, errors, randoms) ==
    \/ CreateAdded(t)
    \/ CreatePinned(t)
    \/ UpdateAdded(t)
    \/ UpdatePinned(t)
    \/ UploadAdded(t)
    \/ UploadPinned(t)
    \/ \E e \in errors, r \in randoms : CallFailed(t, e, r)
    \/ Return(t)

\* the steps of the connection manager
LoopStep(t) ==
    \/ ProbeOk(t)
    \/ ProbeExhausted(t)
    \/ EmbedOk(t)
    \/ EmbedFail(t)
    \/ HealthOk(t)
    \/ HealthFail(t)
    \/ Return(t)

\* One caller, one activity at a time: a call or a timer callback starts only
\* when nothing else is in flight.
Next ==
    \/ /\ ncalls < MaxCalls
       /\ Quiet("c1")
       /\ StoreCall("c1", {"users"}, CreateData, CallerIds, {Obj1("b", "2")},
                    {<< >>}, {"f1"})
    \/ StoreStep("c1", {"e1"}, {0})
    \/ \E t \in Tasks : RetryFail(t, "e1", 0)
    \/ \E t \in Tasks : RetryWake(t)
    \/ \E t \in Loops : Quiet(t) /\ TimerFire(t)
    \/ \E t \in Loops : LoopStep(t)
    \/ Tick

Spec == Init /\ [][Next]_vars

\* Longer runs of one caller on a store that connects once and stays
\* connected, with a backend that does not fail; the clock moves only between
\* the two readings of a create.
NextDeep ==
    \/ /\ ncalls < MaxCalls + 3
       /\ Quiet("c1")
       /\ \/ \E data \in CreateData : CreateCall("c1", "users", data)
          \/ \E filter \in FilterData : FindManyCall("c1", "users", filter)
          \/ \E id \in CallerIds, data \in UpdateData :
                UpdateCall("c1", "users", id, data)
          \/ \E id \in CallerIds : DeleteCall("c1", "users", id)
    \/ CreateAdded("c1")
    \/ CreatePinned("c1")
    \/ UpdateAdded("c1")
    \/ UpdatePinned("c1")
    \/ \E t \in {"c1", "ctor"} : Return(t)
    \/ ProbeOk("ctor")

SpecDeep == Init /\ [][NextDeep]_vars

\* The retry executor under every error and every jitter: the constructor's
\* probe of the external node, and the add and the pin of uploadFile.
NextRetry ==
    \/ /\ ncalls < MaxCalls
       /\ \E file \in Files : UploadFileCall("c1", file)
    \/ UploadAdded("c1")
    \/ UploadPinned("c1")
    \/ \E e \in Errors, r \in 0..(RandomGrain - 1) : CallFailed("c1", e, r)
    \/ \E t \in {"c1", "ctor"}, e \in Errors, r \in 0..(RandomGrain - 1) :
          RetryFail(t, e, r)
    \/ \E t \in {"c1", "ctor"} : RetryWake(t)
    \/ ProbeOk("ctor")
    \/ ProbeExhausted("ctor")
    \/ EmbedOk("ctor")
    \/ EmbedFail("ctor")
    \/ \E t \in {"c1", "ctor"} : Return(t)

SpecRetry == Init /\ [][NextRetry]_vars

\* The same when every invocation of the operation ends, every sleep ends
\* and every outcome is taken: no await of withRetry is left pending.
SpecRetryFair == SpecRetry /\ WF_vars(NextRetry)

\* Creates, lookups and deletes of one caller over two collections, on a store
\* that connects once and stays connected, with a backend that does not fail.
NextDelete ==
    \/ /\ ncalls < MaxCalls + 2
       /\ Quiet("c1")
       /\ \/ \E name \in CollectionNames, data \in CreateData :
                CreateCall("c1", name, data)
          \/ \E name \in CollectionNames, id \in CallerIds :
                FindByIdCall("c1", name, id)
          \/ \E name \in CollectionNames, id \in CallerIds :
                DeleteCall("c1", name, id)
    \/ CreateAdded("c1")
    \/ CreatePinned("c1")
    \/ \E t \in {"c1", "ctor"} : Return(t)
    \/ ProbeOk("ctor")

SpecDelete == Init /\ [][NextDelete]_vars

\* Two callers whose creates, updates and deletes of one collection overlap:
\* a call begins whenever its caller is idle, whatever the other caller is
\* doing, on a store that stays connected with a backend that does not fail.
NextRace ==
    \/ /\ ncalls < MaxCalls + 1
       /\ pc["ctor"] = "idle"
       /\ \E t \in Callers :
             \/ \E data \in CreateData : CreateCall(t, "users", data)
             \/ \E id \in CallerIds, data \in UpdateData :
                   UpdateCall(t, "users", id, data)
             \/ \E id \in CallerIds : DeleteCall(t, "users", id)
    \/ \E t \in Callers : CreateAdded(t)
    \/ \E t \in Callers : CreatePinned(t)
    \/ \E t \in Callers : UpdateAdded(t)
    \/ \E t \in Callers : UpdatePinned(t)
    \/ \E t \in Callers \cup {"ctor"} : Return(t)
    \/ ProbeOk("ctor")

SpecRace == Init /\ [][NextRace]_vars

\* The connection manager alone: the constructor's initIPFS and the timer
\* callbacks, with every error and every jitter.
NextLoop ==
    \/ \E t \in Loops, e \in Errors, r \in 0..(RandomGrain - 1) :
          RetryFail(t, e, r)
    \/ \E t \in Loops : RetryWake(t)
    \/ \E t \in Loops : TimerFire(t)
    \/ \E t \in Loops : LoopStep(t)

SpecLoop == Init /\ [][NextLoop]_vars

\* The connection manager with its scheduling: a scheduled interval timer
\* fires again and again, and every awaited probe, start and sleep settles.
SpecLoopFair == SpecLoop /\ WF_vars(NextLoop)

\* One caller fetching content, on a service that is connected or failed to
\* connect, with every answer of the local node and of the gateways.
NextFetch ==
    \/ /\ ncalls < MaxCalls
       /\ Quiet("c1")
       /\ \E ipfsUrl \in Locators : FetchCall("c1", ipfsUrl)
    \/ \E content \in CatContents : CatOk("c1", content)
    \/ RetryFail("c1", "e1", 0)
    \/ RetryWake("c1")
    \/ CatExhausted("c1", "e1", 0)
    \/ \E resp \in Responses : GatewayResponse("c1", resp)
    \/ GatewayFail("c1")
    \/ FetchReturn("c1")
    \/ RetryFail("ctor", "e1", 0)
    \/ RetryWake("ctor")
    \/ ProbeOk("ctor")
    \/ ProbeExhausted("ctor")
    \/ EmbedFail("ctor")
    \/ Return("ctor")

SpecFetch == Init /\ [][NextFetch]_vars

\* half the ttl of the gateway cache
HalfTtl == gatewayCacheTtl \div 2

\* One caller fetching one locator again and again on a connected store,
\* with half a ttl, or a millisecond more, between any two steps.
NextExpiry ==
    \/ /\ ncalls < MaxCalls + 2
       /\ Quiet("c1")
       /\ FetchCall("c1", IpfsUrl("Qm1", ""))
    \/ \E content \in CatContents : CatOk("c1", content)
    \/ RetryFail("c1", "e1", 0)
    \/ RetryWake("c1")
    \/ CatExhausted("c1", "e1", 0)
    \/ \E resp \in Responses : GatewayResponse("c1", resp)
    \/ GatewayFail("c1")
    \/ FetchReturn("c1")
    \/ ProbeOk("ctor")
    \/ Return("ctor")
    \/ /\ \A t \in Tasks : pc[t] = "idle"
       /\ \E d \in {HalfTtl, HalfTtl + 1} : Elapse(d)

SpecExpiry == Init /\ [][NextExpiry]_vars

\* the arguments callers give to getHttpUrl
UrlArguments ==
    Locators \cup { EmptyString, IpfsUrl("Qm1", "/a"), BareCid("Qm1") }

\* One caller resolving locators on the first two gateways, with more than
\* the ttl of the resolution cache between some of the calls.
NextResolve ==
    \/ /\ ncalls < MaxCalls + 1
       /\ \E ipfsUrl \in UrlArguments, i \in 1..2 :
            GetHttpUrlCall("c1", ipfsUrl, PUBLIC_GATEWAYS[i])
    \/ Return("c1")
    \/ /\ pc["c1"] = "idle"
       /\ clock < MaxTtls * resolvedUrlCacheTtl
       /\ Elapse(resolvedUrlCacheTtl + 1)

SpecResolve == Init /\ [][NextResolve]_vars

\* One caller fetching two locators and asking for the working gateways, on
\* a store that failed to connect, with a little more than half the ttl of
\* the resolution cache between some of the calls.
NextRank ==
    \/ /\ ncalls < MaxCalls + 2
       /\ Quiet("c1")
       /\ \/ \E id \in {"Qm1", "Qm2"} : FetchCall("c1", IpfsUrl(id, ""))
          \/ GetWorkingGatewaysCall("c1")
    \/ GatewayResponse("c1", [type |-> "text/plain", parses |-> FALSE,
                              body |-> "t1"])
    \/ GatewayFail("c1")
    \/ FetchReturn("c1")
    \/ /\ call["c1"].op = "getWorkingGateways"
       /\ Return("c1")
    \/ RetryFail("ctor", "e1", 0)
    \/ RetryWake("ctor")
    \/ ProbeExhausted("ctor")
    \/ EmbedFail("ctor")
    \/ Return("ctor")
    \/ /\ \A t \in Tasks : pc[t] = "idle"
       /\ clock < MaxTtls * resolvedUrlCacheTtl
       /\ Elapse(resolvedUrlCacheTtl \div 2 + 1)

SpecRank == Init /\ [][NextRank]_vars

\* Every account sending every call to the registry, with every id it can
\* know of, block after block.
NextRegistry ==
    \/ \E sender \in Accounts, name \in OrgNames :
          createOrganization(sender, name)
    \/ \E sender \in Accounts, orgId \in KnownOrgIds(registry),
          name \in NewOrgNames, active \in BOOLEAN :
          updateOrganization(sender, orgId, name, active)
    \/ \E sender \in Accounts, orgId \in KnownOrgIds(registry),
          member \in Accounts \cup {ZeroAddress}, issued \in BOOLEAN :
          addMember(sender, orgId, member, issued)
    \/ \E sender \in Accounts, orgId \in KnownOrgIds(registry),
          member \in Accounts \cup {ZeroAddress}, revoked \in BOOLEAN :
          removeMember(sender, orgId, member, revoked)
    \/ Mine

SpecRegistry == Init /\ [][NextRegistry]_vars

\* One caller fetching two paths under one content id, on a store that failed
\* to connect, from gateways that fail or answer with the content at the URL
\* requested.
NextPaths ==
    \/ /\ ncalls < MaxCalls + 1
       /\ Quiet("c1")
       /\ \E path \in {"/a", "/b"} : FetchCall("c1", IpfsUrl("Qm1", path))
    \/ GatewayResponse("c1", ContentAt(fetch["c1"].httpUrl))
    \/ GatewayFail("c1")
    \/ FetchReturn("c1")
    \/ RetryFail("ctor", "e1", 0)
    \/ RetryWake("ctor")
    \/ ProbeExhausted("ctor")
    \/ EmbedFail("ctor")
    \/ Return("ctor")

SpecPaths == Init /\ [][NextPaths]_vars

\* One caller writing while the timer callback checks the health of the
\* store and reconnects it: the callback runs while the call is suspended.
NextSwap ==
    \/ /\ ncalls < MaxCalls
       /\ pc["ctor"] = "idle"
       /\ \/ CreateCall("c1", "users", Obj1("id", "r1"))
          \/ UpdateCall("c1", "users", "r1", Obj1("b", "2"))
          \/ UploadFileCall("c1", "f1")
    \/ StoreStep("c1", {"e1"}, {0})
    \/ \E t \in Tasks : RetryFail(t, "e1", 0)
    \/ \E t \in Tasks : RetryWake(t)
    \/ TimerFire("t1")
    \/ \E t \in Loops : LoopStep(t)

SpecSwap == Init /\ [][NextSwap]_vars

(***************************************************************************)
(* Properties.                                                            *)
(***************************************************************************)
\* how many invocations of task t's operation are in flight
InFlight(t) ==
    IF retry[t].phase = "off" THEN 0 ELSE ops[t].invoked - Len(ops[t].thrown)

\* C1: withRetry invokes the operation one invocation at a time until the
\* first success or until maxRetries invocations have failed: a success after
\* k < maxRetries failures is returned after exactly k + 1 invocations and
\* nothing is raised; when every invocation fails there are exactly
\* maxRetries of them and withRetry raises an IPFSOperationError that wraps
\* the last failure.
C1_RetryBound ==
    /\ [](\A t \in Tasks :
            /\ InFlight(t) \in {0, 1}
            /\ retry[t].phase = "call"
               => /\ InFlight(t) = 1
                  /\ ops[t].invoked = retry[t].attempt
                  /\ ops[t].invoked <= maxRetries
            /\ retry[t].phase = "wait"
               => /\ InFlight(t) = 0
                  /\ ops[t].invoked < maxRetries)
    /\ [][ \A t \in Callers :
             /\ ( pc[t] = "add" /\ pc'[t] = "pin" )
                => /\ retry[t].phase = "call"
                   /\ ops[t].invoked = Len(ops[t].thrown) + 1
                   /\ Len(ops[t].thrown) < maxRetries
                   /\ addResult'[t] = [cid |-> CidOf(FileContent(call[t].file)),
                                       size |-> SizeOf(call[t].file)]
             /\ ( pc[t] = "pin" /\ pc'[t] = "done" /\ ret'[t].kind # "error" )
                => /\ retry[t].phase = "call"
                   /\ ops'[t].invoked = Len(ops'[t].thrown) + 1
                   /\ Len(ops'[t].thrown) < maxRetries
                   /\ ret'[t] = [kind |-> "upload", cid |-> addResult[t].cid,
                                 size |-> addResult[t].size]
             /\ ( pc[t] \in {"add", "pin"} /\ pc'[t] = "done"
                  /\ ret'[t].kind = "error" )
                => /\ ops'[t].invoked = maxRetries
                   /\ Len(ops'[t].thrown) = maxRetries
                   /\ ret'[t] = [kind |-> "error", name |-> "IPFSOperationError",
                                 attempts |-> maxRetries,
                                 cause |-> ops'[t].thrown[maxRetries]]
             /\ ( pc[t] \in {"add", "pin"}
                  /\ Len(ops'[t].thrown) > Len(ops[t].thrown)
                  /\ Len(ops'[t].thrown) < maxRetries )
                => ( pc'[t] = pc[t] /\ retry'[t].phase = "wait" ) ]_vars

\* three invocations failed, the first and the last with different errors,
\* and the error raised wraps the last
C1_Witness ==
    \E t \in Callers :
        /\ pc[t] = "done"
        /\ ret[t].kind = "error"
        /\ ret[t].name = "IPFSOperationError"
        /\ ops[t].invoked = maxRetries
        /\ ops[t].thrown[1] # ops[t].thrown[maxRetries]
        /\ ret[t].cause = ops[t].thrown[maxRetries]

\* caller t begins a call in this step
Begins(t) == pc[t] = "idle" /\ pc'[t] # "idle"

\* this step leaves the index of every collection as it is
IndexesUnchanged ==
    \A n \in CollectionNames : Index(collections', n) = Index(collections, n)

\* t's call is a create or update suspended in its add or its pin
Writing(t) == pc[t] \in {"add", "pin"} /\ call[t].op \in {"create", "update"}

\* C2: create, update, delete, findMany and uploadFile called while the
\* connected flag is false raise IPFSConnectionError, invoke no backend
\* operation and change no collection index and no cache.
C2_DisconnectedCallsRaise ==
    [][ \A t \in Callers :
          ( /\ Begins(t)
            /\ ~isConnected
            /\ call'[t].op \in {"create", "update", "delete", "findMany",
                                 "uploadFile"} )
          => /\ pc'[t] = "done"
             /\ ret'[t] = ConnectionError
             /\ ops'[t].invoked = 0
             /\ added' = added
             /\ pinned' = pinned
             /\ collections' = collections
             /\ contentCache' = contentCache ]_vars

\* an update was refused while the flag is false and the index holds a record
C2_Witness ==
    \E t \in Callers :
        /\ pc[t] = "done"
        /\ call[t].op = "update"
        /\ ret[t] = ConnectionError
        /\ ~isConnected
        /\ Len(Index(collections, "users")) > 0

\* C3: when the add or the pin of a create or update exhausts its retries,
\* the call throws the IPFSOperationError of withRetry as it is, and no step
\* of the call has changed an index: nothing is inserted by a failed create
\* and the previous version stays after a failed update.
C3_FailedWriteLeavesIndex ==
    [][ \A t \in Callers :
          /\ ( Writing(t) /\ pc'[t] = "done" /\ ret'[t].kind = "error" )
             => /\ ret'[t] = [kind |-> "error", name |-> "IPFSOperationError",
                              attempts |-> maxRetries,
                              cause |-> ops'[t].thrown[maxRetries]]
                /\ IndexesUnchanged
          /\ ( Writing(t) /\ ~IndexesUnchanged )
             => ( pc'[t] = "done" /\ ret'[t].kind = "doc" )
          /\ ( Begins(t) /\ call'[t].op \in {"create", "update"} )
             => IndexesUnchanged ]_vars

\* an update failed and the record it was to replace is still indexed
C3_Witness ==
    \E t \in Callers :
        /\ pc[t] = "done"
        /\ call[t].op = "update"
        /\ ret[t].kind = "error"
        /\ ret[t].name = "IPFSOperationError"
        /\ MapHas(Index(collections, call[t].collection), call[t].id)

\* every indexed record version has been added, and its identifier pinned
IndexedArePinned ==
    /\ \A n \in DOMAIN collections : \A i \in 1..Len(collections[n]) :
          /\ Stringify(collections[n][i].value) \in added
          /\ CidOf(Stringify(collections[n][i].value)) \in pinned
    /\ \A cid \in pinned : cid.cid \in added

\* C4 as stated: a successful create returns a record whose id is data.id
\* when data has an id and the next generated id otherwise, and every indexed
\* record version has been added and then pinned.
C4_Original ==
    /\ \A t \in Callers :
          ( pc[t] = "done" /\ call[t].op = "create" /\ ret[t].kind = "doc" )
          => ret[t].doc.id = IF "id" \in ObjKeys(call[t].data)
                             THEN ObjGet(call[t].data, "id")
                             ELSE UuidPool[uuids]
    /\ IndexedArePinned

\* C4 amended: the id is data.id when data.id is truthy (present and not the
\* empty string) and the next generated id otherwise; every indexed record
\* version has been added and then pinned.
C4_CreateIdAndPinned ==
    /\ \A t \in Callers :
          ( pc[t] = "done" /\ call[t].op = "create" /\ ret[t].kind = "doc" )
          => /\ ret[t].doc.id = IF Truthy(ObjGet(call[t].data, "id"))
                                THEN ObjGet(call[t].data, "id")
                                ELSE UuidPool[uuids]
             /\ MapGet(Index(collections, call[t].collection), ret[t].doc.id)
                  = ret[t].doc
    /\ IndexedArePinned

\* a create with an empty data.id returned a record with a generated id
C4_Witness ==
    \E t \in Callers :
        /\ pc[t] = "done"
        /\ call[t].op = "create"
        /\ ret[t].kind = "doc"
        /\ ObjGet(call[t].data, "id") = ""
        /\ ret[t].doc.id = "g1"
        /\ MapHas(Index(collections, "users"), "g1")

\* what findById returns from the index
Lookup(cols, name, id) ==
    IF MapHas(Index(cols, name), id)
    THEN [kind |-> "doc", doc |-> MapGet(Index(cols, name), id)]
    ELSE Null

\* C5 as stated: in every state findById invokes no backend operation,
\* returns the indexed record when the id is indexed and null when it is not.
C5_Original ==
    [][ \A t \in Callers :
          ( Begins(t) /\ call'[t].op = "findById" )
          => /\ pc'[t] = "done"
             /\ ops'[t].invoked = 0
             /\ added' = added
             /\ pinned' = pinned
             /\ ret'[t] = Lookup(collections, call'[t].collection, call'[t].id)
        ]_vars

\* C5 amended: findById never invokes a backend operation; while the
\* connected flag is true it returns the indexed record when the id is
\* indexed and null when it is not; while the flag is false it raises
\* IPFSConnectionError.
C5_FindByIdLookup ==
    [][ \A t \in Callers :
          ( Begins(t) /\ call'[t].op = "findById" )
          => /\ pc'[t] = "done"
             /\ ops'[t].invoked = 0
             /\ added' = added
             /\ pinned' = pinned
             /\ IndexesUnchanged
             /\ ret'[t] = IF isConnected
                          THEN Lookup(collections, call'[t].collection,
                                      call'[t].id)
                          ELSE ConnectionError ]_vars

\* findById returned null for an id that is not indexed while another is
C5_Witness ==
    \E t \in Callers :
        /\ pc[t] = "done"
        /\ call[t].op = "findById"
        /\ ret[t] = Null
        /\ isConnected
        /\ Len(Index(collections, call[t].collection)) > 0

\* C8: an update of an indexed id replaces the index entry by a record whose
\* data is the existing data with the given keys replaced and the other keys
\* kept, and whose id, collection tag and createdAt are those of the existing
\* record; an update of an id that is not indexed returns null, invokes no
\* backend operation and changes no index and no cache.
C8_UpdateMerges ==
    [][ \A t \in Callers :
          /\ ( /\ pc[t] = "pin"
               /\ call[t].op = "update"
               /\ pc'[t] = "done"
               /\ ret'[t].kind = "doc" )
             => LET name == call[t].collection
                    old == MapGet(Index(collections, name), call[t].id)
                    new == MapGet(Index(collections', name), call[t].id)
                IN  /\ MapHas(Index(collections, name), call[t].id)
                    /\ MapKeys(Index(collections', name))
                         = MapKeys(Index(collections, name))
                    /\ \A i \in 1..Len(Index(collections, name)) :
                          Index(collections, name)[i].key # call[t].id
                          => Index(collections', name)[i]
                               = Index(collections, name)[i]
                    /\ ret'[t].doc = new
                    /\ new.id = old.id
                    /\ new.type = old.type
                    /\ new.createdAt = old.createdAt
                    /\ ObjKeys(new.data)
                         = ObjKeys(old.data) \cup ObjKeys(call[t].data)
                    /\ \A k \in ObjKeys(new.data) :
                          ObjGet(new.data, k)
                            = IF k \in ObjKeys(call[t].data)
                              THEN ObjGet(call[t].data, k)
                              ELSE ObjGet(old.data, k)
          /\ ( /\ Begins(t)
               /\ call'[t].op = "update"
               /\ isConnected
               /\ ~MapHas(Index(collections, call'[t].collection), call'[t].id) )
             => /\ pc'[t] = "done"
                /\ ret'[t] = Null
                /\ ops'[t].invoked = 0
                /\ added' = added
                /\ pinned' = pinned
                /\ contentCache' = contentCache
                /\ IndexesUnchanged ]_vars

\* {a: 1, b: 1} updated with {b: 2} is indexed as {a: 1, b: 2}
C8_Witness ==
    \E t \in Callers :
        /\ pc[t] = "done"
        /\ call[t].op = "update"
        /\ call[t].data = Obj1("b", "2")
        /\ ret[t].kind = "doc"
        /\ ret[t].doc.id = "g1"
        /\ ret[t].doc.data = Obj2("a", "1", "b", "2")
        /\ MapGet(Index(collections, "users"), "g1") = ret[t].doc

\* C9 as stated: after a successful update the record's updatedAt is
\* strictly greater than its createdAt.
C9_Original ==
    \A t \in Callers :
        ( pc[t] = "done" /\ call[t].op = "update" /\ ret[t].kind = "doc" )
        => ret[t].doc.updatedAt.ms > ret[t].doc.createdAt.ms

\* C9 amended: the updatedAt of an updated record is the reading of the clock
\* the update took when it was called; it is never less than the record's
\* createdAt, and equal to it when the update falls in the millisecond of
\* the create.
C9_UpdatedAtIsUpdateTime ==
    /\ [][ \A t \in Callers :
             ( Begins(t) /\ call'[t].op = "update" /\ pc'[t] = "add" )
             => document'[t].updatedAt = NewDate(clock) ]_vars
    /\ [][ \A t \in Callers :
             ( pc[t] = "pin" /\ call[t].op = "update" /\ pc'[t] = "done"
               /\ ret'[t].kind = "doc" )
             => /\ ret'[t].doc.updatedAt = document[t].updatedAt
                /\ ret'[t].doc.updatedAt.ms >= ret'[t].doc.createdAt.ms
                /\ ret'[t].doc.updatedAt.ms <= clock ]_vars

\* an update in the millisecond of the create: updatedAt equals createdAt
C9_Witness ==
    \E t \in Callers :
        /\ pc[t] = "done"
        /\ call[t].op = "update"
        /\ ret[t].kind = "doc"
        /\ ret[t].doc.updatedAt = ret[t].doc.createdAt

\* C10: the record a successful create returns has createdAt equal to
\* updatedAt.
C10_CreateStampsEqual ==
    \A t \in Callers :
        ( pc[t] = "done" /\ call[t].op = "create" /\ ret[t].kind = "doc" )
        => ret[t].doc.createdAt = ret[t].doc.updatedAt

\* the top-level field of a record a plain filter key names
TopLevelField(doc, key) ==
    CASE key = "id" -> doc.id
      [] key = "type" -> doc.type
      [] OTHER -> Undefined

\* the entry of a filter matches the record, as C6 states it
EntryHolds(doc, key, value) ==
    IF Len(key) = 2
    THEN key[1] = "data" /\ key[2] \in ObjKeys(doc.data)
         /\ ObjGet(doc.data, key[2]) = value
    ELSE \/ TopLevelField(doc, key[1]) = value
         \/ (key[1] \in ObjKeys(doc.data) /\ ObjGet(doc.data, key[1]) = value)

\* C6: findMany returns exactly the records of the collection for which
\* every entry of the filter matches: a dotted key parent.child when
\* record[parent][child] is the value, a plain key when the record's
\* top-level field or its field under data is the value.
C6_FindManyFilters ==
    \A t \in Callers :
        ( pc[t] = "done" /\ call[t].op = "findMany" /\ ret[t].kind = "docs" )
        => ret[t].docs =
             SelectSeq(MapValues(Index(collections, call[t].collection)),
                       LAMBDA doc :
                         \A i \in 1..Len(call[t].filter) :
                           EntryHolds(doc, call[t].filter[i].k,
                                      call[t].filter[i].v))

\* of two records with data.a = 1, the filter {data.a: 1, data.b: 1} returned
\* the one with data.b = 1
C6_Witness ==
    \E t \in Callers :
        /\ pc[t] = "done"
        /\ call[t].op = "findMany"
        /\ call[t].filter
             = Obj2(FilterKey2("data", "a"), "1", FilterKey2("data", "b"), "1")
        /\ ret[t].kind = "docs"
        /\ Len(ret[t].docs) = 1
        /\ Len(Index(collections, "users")) = 2
        /\ \A i \in 1..2 :
              ObjGet(Index(collections, "users")[i].value.data, "a") = "1"

Range(seq) == { seq[i] : i \in 1..Len(seq) }

\* the position of an element in a sequence without duplicates
Pos(seq, x) == CHOOSE i \in 1..Len(seq) : seq[i] = x

\* the ids of old that are still in new keep their order, and the ids new to
\* new come after them
OrderKept(old, new) ==
    /\ \A i, j \in 1..Len(new) :
          ( i < j /\ new[i] \in Range(old) /\ new[j] \in Range(old) )
          => Pos(old, new[i]) < Pos(old, new[j])
    /\ \A i, j \in 1..Len(new) :
          ( new[i] \notin Range(old) /\ new[j] \in Range(old) ) => j < i

\* sub is seq with some elements left out
RECURSIVE IsSubSeq(_, _)
IsSubSeq(sub, seq) ==
    IF sub = << >> THEN TRUE
    ELSE IF seq = << >> THEN FALSE
    ELSE IF sub[1] = seq[1] THEN IsSubSeq(Tail(sub), Tail(seq))
    ELSE IsSubSeq(sub, Tail(seq))

\* C7: findMany with an empty filter returns every record of the index, the
\* records findMany returns are in the order of the index, and the index is
\* in insertion order: no step changes the relative order of the ids that
\* stay, and an id that enters enters at the end.
C7_InsertionOrder ==
    /\ [][ \A t \in Callers :
             ( Begins(t) /\ call'[t].op = "findMany" /\ isConnected )
             => LET docs == MapValues(Index(collections, call'[t].collection))
                IN  /\ ret'[t].kind = "docs"
                    /\ call'[t].filter = << >> => ret'[t].docs = docs
                    /\ IsSubSeq(ret'[t].docs, docs) ]_vars
    /\ [][ \A n \in CollectionNames :
             OrderKept(MapKeys(Index(collections, n)),
                       MapKeys(Index(collections', n))) ]_vars

\* r1 was created before g1, then deleted and created again: findMany with an
\* empty filter returns g1 before r1
C7_Witness ==
    \E t \in Callers :
        /\ pc[t] = "done"
        /\ call[t].op = "findMany"
        /\ call[t].filter = << >>
        /\ ret[t].kind = "docs"
        /\ Len(ret[t].docs) = 2
        /\ ret[t].docs[1].id = "g1"
        /\ ret[t].docs[2].id = "r1"
        /\ \E c \in added :
              c.id = "r1" /\ c.createdAt.iso < ret[t].docs[1].createdAt.ms

\* the boolean a delete returns
Bool(b) == [kind |-> "bool", value |-> b]

\* C11: a delete that returns returns true exactly when the id was in the
\* collection's index, and the id is not in the index afterwards; an id that
\* is not in an index enters it only at the end of a create of that id, so
\* until then findById of the id returns null and a delete of it returns
\* false.
C11_DeleteThenAbsent ==
    /\ [][ \A t \in Callers :
             ( Begins(t) /\ call'[t].op = "delete" /\ isConnected )
             => LET name == call'[t].collection
                    id == call'[t].id
                IN  /\ pc'[t] = "done"
                    /\ ret'[t] = Bool(MapHas(Index(collections, name), id))
                    /\ ~MapHas(Index(collections', name), id) ]_vars
    /\ [][ \A n \in CollectionNames, id \in Range(UuidPool) \cup CallerIds :
             ( /\ ~MapHas(Index(collections, n), id)
               /\ MapHas(Index(collections', n), id) )
             => \E t \in Callers :
                  /\ call[t] # NoCall
                  /\ call[t].op = "create"
                  /\ call[t].collection = n
                  /\ pc[t] = "pin"
                  /\ pc'[t] = "done"
                  /\ ret'[t].kind = "doc"
                  /\ ret'[t].doc.id = id ]_vars
    /\ [][ \A t \in Callers :
             ( /\ Begins(t)
               /\ call'[t].op = "findById"
               /\ isConnected
               /\ ~MapHas(Index(collections, call'[t].collection), call'[t].id) )
             => ret'[t] = Null ]_vars

\* a second delete of a record that was created and deleted returned false
C11_Witness ==
    \E t \in Callers :
        /\ pc[t] = "done"
        /\ call[t].op = "delete"
        /\ ret[t] = Bool(FALSE)
        /\ \E c \in added : c.id = call[t].id /\ c.type = call[t].collection
        /\ ~MapHas(Index(collections, call[t].collection), call[t].id)

\* C12: a delete removes the index entry of its id and nothing else: it
\* invokes no backend operation, and the other records of the collection, the
\* other collections and the content cache are as they were.
C12_DeleteRemovesOnlyEntry ==
    [][ \A t \in Callers :
          ( Begins(t) /\ call'[t].op = "delete" )
          => LET name == call'[t].collection
                 id == call'[t].id
             IN  /\ pc'[t] = "done"
                 /\ ops'[t].invoked = 0
                 /\ added' = added
                 /\ pinned' = pinned
                 /\ contentCache' = contentCache
                 /\ \A n \in CollectionNames \ {name} :
                       Index(collections', n) = Index(collections, n)
                 /\ Index(collections', name)
                      = IF isConnected
                        THEN SelectSeq(Index(collections, name),
                                       LAMBDA e : e.key # id)
                        ELSE Index(collections, name) ]_vars

\* a delete returned true and left another record in its collection and a
\* record in the other collection
C12_Witness ==
    \E t \in Callers :
        /\ pc[t] = "done"
        /\ call[t].op = "delete"
        /\ ret[t] = Bool(TRUE)
        /\ Len(Index(collections, call[t].collection)) > 0
        /\ \E n \in CollectionNames \ {call[t].collection} :
              Len(Index(collections, n)) > 0
        /\ Len(contentCache) > 0

\* C13: calls on one record id are serialized: while a create or update of an
\* id is between its reading and its writing of the index, no other create or
\* update of that id is, and no delete removes that id; and an update that
\* ends leaves its complete record as the index entry.
C13_SerializedPerId ==
    /\ [](\A t, u \in Callers :
            ( t # u /\ Writing(t) /\ Writing(u)
              /\ call[t].collection = call[u].collection )
            => document[t].id # document[u].id)
    /\ [][ \A t, u \in Callers :
             ( /\ t # u
               /\ Writing(t)
               /\ Begins(u)
               /\ call'[u].op = "delete"
               /\ call'[u].collection = call[t].collection )
             => call'[u].id # document[t].id ]_vars
    /\ [][ \A t \in Callers :
             ( pc[t] = "pin" /\ call[t].op = "update" /\ pc'[t] = "done"
               /\ ret'[t].kind = "doc" )
             => MapGet(Index(collections', call[t].collection), call[t].id)
                  = document[t] ]_vars

\* task t is inside initIPFS
Connecting(t) == pc[t] \in {"version", "embed"}

\* C14: initIPFS probes the external node first and starts the embedded node
\* only after that probe has failed; it ends with the connected flag true
\* when the probe or the embedded node succeeds, and it throws, with the flag
\* false, only when the embedded node fails after the probe failed.
C14_ConnectFallsBack ==
    [][ \A t \in Loops :
          /\ ( ~Connecting(t) /\ Connecting(t)' )
             => /\ pc'[t] = "version"
                /\ ipfs' = "http"
                /\ ops'[t].invoked = 1
          /\ ( pc[t] # "embed" /\ pc'[t] = "embed" )
             => /\ pc[t] = "version"
                /\ ipfs = "http"
                /\ ops[t].invoked = maxRetries
                /\ Len(ops[t].thrown) = maxRetries - 1
                /\ isConnected' = isConnected
          /\ ( Connecting(t) /\ ~Connecting(t)' )
             => /\ pc'[t] = "done"
                /\ \/ /\ ret'[t].connect = "returned"
                      /\ isConnected'
                      /\ ipfs' = IF pc[t] = "version" THEN "http" ELSE "core"
                   \/ /\ ret'[t].connect = "threw"
                      /\ pc[t] = "embed"
                      /\ ~isConnected' ]_vars

\* a reconnect whose probe failed ended connected to an embedded node
C14_Witness ==
    /\ pc["t1"] = "done"
    /\ ret["t1"].connect = "returned"
    /\ ipfs = "core"
    /\ isConnected

\* C15: the background loop runs for the whole life of the store: whenever
\* the flag is false an initIPFS is eventually running, whenever the flag is
\* true a health check is eventually run, and a health check that fails goes
\* on to reconnect; from the first state on, also when the constructor's
\* initIPFS fails.
C15_LoopKeepsRunning ==
    /\ [](~isConnected => <>(\E t \in Loops : Connecting(t)))
    /\ [](isConnected => <>(\E t \in Loops : pc[t] = "health"))
    /\ [][ \A t \in Loops :
             ( pc[t] = "health" /\ ~isConnected' ) => pc'[t] = "version" ]_vars

\* C16: no timer callback ends with a rejection: a failed health check or a
\* failed reconnect ends the callback normally, in either branch, and the
\* timer stays scheduled for the next interval.
C16_CycleFailuresStay ==
    [][ \A t \in Loops \ {"ctor"} :
          ( pc[t] # "done" /\ pc'[t] = "done" )
          => /\ ret'[t].error = "none"
             /\ timers' >= timers
             /\ timers' > 0 ]_vars

\* C17: the connected flag starts false; it becomes true only at the end of
\* an initIPFS whose probe or embedded start succeeded; it becomes false only
\* when the one probe of a health check fails, which makes checkHealth
\* return false, or when an initIPFS fails on both backends; a health check
\* whose probe succeeds returns true and leaves the flag as it is.
C17_FlagTransitions ==
    /\ ~isConnected
    /\ [][ /\ ( ~isConnected /\ isConnected' )
               => \E t \in Loops :
                    /\ Connecting(t)
                    /\ pc'[t] = "done"
                    /\ ret'[t].connect = "returned"
           /\ ( isConnected /\ ~isConnected' )
               => \E t \in Loops :
                    \/ /\ pc[t] = "health"
                       /\ retry[t].phase = "off"
                       /\ pc'[t] # "done"
                       /\ HealthOf(call'[t].site) = "false"
                    \/ /\ pc[t] = "embed"
                       /\ pc'[t] = "done"
                       /\ ret'[t].connect = "threw"
           /\ \A t \in Loops :
                ( pc[t] = "health" /\ pc'[t] = "done" )
                => /\ ret'[t].health = "true"
                   /\ isConnected' = isConnected ]_vars

\* a health check failed on a connected store: the flag is false and the
\* callback is in the reconnect of its unhealthy branch
C17_Witness ==
    /\ ~isConnected
    /\ pc["t1"] = "version"
    /\ call["t1"].site = "unhealthy"
    /\ ipfs = "http"

\* the URL of a locator on the gateway of the given number
OwnUrl(ipfsUrl, k) == HttpUrl(PUBLIC_GATEWAYS[k], ipfsUrl.id, ipfsUrl.path)

\* a fetchContent of a well-formed locator
Fetching(t) ==
    /\ call[t].op = "fetchContent"
    /\ call[t].ipfsUrl.form \in {"ipfs", "cid"}

\* C18: a fetchContent that goes to the gateways requests them one at a time
\* in the order of the list, the k-th request on the URL of the locator on
\* the k-th gateway, and when a gateway answers the resolution cache holds,
\* for the locator, that gateway and the URL that was requested on it.
C18_GatewaysInOrder ==
    \A t \in Callers :
        Fetching(t)
        => /\ Len(fetch[t].requests) <= Len(PUBLIC_GATEWAYS)
           /\ \A k \in 1..Len(fetch[t].requests) :
                 fetch[t].requests[k] = OwnUrl(call[t].ipfsUrl, k)
           /\ ( pc[t] = "done" /\ ret[t].kind = "content"
                /\ fetch[t].requests # << >> )
              => /\ LruHas(resolvedUrlCache, call[t].ipfsUrl, clock,
                           resolvedUrlCacheTtl)
                 /\ LruGet(resolvedUrlCache, call[t].ipfsUrl).gateway
                      = PUBLIC_GATEWAYS[fetch[t].gateway]
                 /\ LruGet(resolvedUrlCache, call[t].ipfsUrl).url
                      = OwnUrl(call[t].ipfsUrl, fetch[t].gateway)

\* fetchContent is called with an unexpired entry for the content id in the
\* gateway cache: it returns the entry's data and asks neither the local
\* node nor a gateway
CachedReturnsAtOnce(t) ==
    ( /\ pc[t] = "idle"
      /\ call'[t].op = "fetchContent"
      /\ LruHas(gatewayCache, CidKey(call'[t].ipfsUrl), clock,
                gatewayCacheTtl) )
    => /\ pc'[t] = "done"
       /\ ret'[t] = [kind |-> "content",
                     data |-> LruGet(gatewayCache,
                                     CidKey(call'[t].ipfsUrl)).data]
       /\ fetch'[t].local = "none"
       /\ fetch'[t].requests = << >>
       /\ ops'[t] = NoOps

\* the local retrieval of a fetchContent is over in this step: ipfs.cat was
\* awaited, or the store answered at once
LocalEnds(t) ==
    /\ call'[t].op = "fetchContent"
    /\ \/ pc[t] = "cat" /\ pc'[t] # "cat"
       \/ pc[t] = "idle" /\ pc'[t] # "cat" /\ fetch'[t].local # "none"

\* the failure of the local retrieval does not reach the caller: the gateways
\* are asked, and the only error of a fetchContent is the one after the last
\* gateway
LocalFailureStays(t) ==
    /\ ( LocalEnds(t) /\ fetch'[t].local = "threw" )
       => /\ pc'[t] = "gateway"
          /\ ret'[t] = NoRet
    /\ ( call'[t].op = "fetchContent" /\ ret'[t].kind = "error" )
       => /\ ret'[t] = FetchError(call'[t].ipfsUrl)
          /\ fetch'[t].gateway = Len(PUBLIC_GATEWAYS)
          /\ Len(fetch'[t].requests) = Len(PUBLIC_GATEWAYS)

\* C19 as stated: a cached entry is returned at once; a local retrieval that
\* succeeds is returned with no gateway request; a local failure only leads
\* to the gateways.
C19_Original ==
    [][ \A t \in Callers :
          /\ CachedReturnsAtOnce(t)
          /\ ( LocalEnds(t) /\ fetch'[t].local # "threw" )
             => /\ pc'[t] = "done"
                /\ ret'[t].kind = "content"
                /\ fetch'[t].requests = << >>
          /\ LocalFailureStays(t) ]_vars

\* C19 for content that is truthy: a cached entry is returned at once; a
\* local retrieval that succeeds with content that is truthy is returned,
\* and cached, with no gateway request, while one that succeeds with the
\* empty string or null goes on to the gateways like a failure; a local
\* failure only leads to the gateways.
C19_ShortCircuits ==
    [][ \A t \in Callers :
          /\ CachedReturnsAtOnce(t)
          /\ ( LocalEnds(t) /\ fetch'[t].local = "content" )
             => /\ pc'[t] = "done"
                /\ ret'[t].kind = "content"
                /\ TruthyContent(ret'[t].data)
                /\ fetch'[t].requests = << >>
                /\ LruGet(gatewayCache', fetch'[t].cid).data = ret'[t].data
          /\ ( LocalEnds(t) /\ fetch'[t].local = "falsy" )
             => /\ pc'[t] = "gateway"
                /\ ret'[t] = NoRet
                /\ Len(fetch'[t].requests) = 1
          /\ LocalFailureStays(t) ]_vars

\* C20: when the local retrieval and every gateway failed, fetchContent
\* throws an error that names the locator, and neither the gateway cache nor
\* the resolution cache holds an entry for the locator.
C20_ExhaustedLeavesNothing ==
    \A t \in Callers :
        ( Fetching(t) /\ pc[t] = "done" /\ ret[t].kind = "error" )
        => /\ ret[t].message = call[t].ipfsUrl
           /\ ~LruHas(gatewayCache, fetch[t].cid, clock, gatewayCacheTtl)
           /\ ~LruHas(resolvedUrlCache, call[t].ipfsUrl, clock,
                      resolvedUrlCacheTtl)

\* C20 without the resolution cache: the error names the locator and the
\* gateway cache holds no entry for the content id.
C20_ExhaustedLeavesNoContent ==
    \A t \in Callers :
        ( Fetching(t) /\ pc[t] = "done" /\ ret[t].kind = "error" )
        => /\ ret[t] = FetchError(call[t].ipfsUrl)
           /\ ~LruHas(gatewayCache, fetch[t].cid, clock, gatewayCacheTtl)

\* the entry of the gateway cache under a key
LruEntry(cache, key) ==
    cache[CHOOSE i \in 1..Len(cache) : cache[i].key = key]

\* the cache holds the key, fresh or stale
LruStored(cache, key) == \E i \in 1..Len(cache) : cache[i].key = key

\* a fetchContent is called in this step
FetchBegins(t) ==
    /\ pc[t] = "idle"
    /\ pc'[t] # "idle"
    /\ call'[t].op = "fetchContent"

\* a fetchContent returns from the gateway cache in this step
ServedFromCache(t) ==
    /\ FetchBegins(t)
    /\ pc'[t] = "done"
    /\ fetch'[t].local = "none"
    /\ fetch'[t].requests = << >>

\* C21 as stated: an entry of the gateway cache inserted at time T is absent
\* at every time after T + ttl, whatever reads happened in between, and a
\* fetchContent after T + ttl goes through the retrieval again.
C21_Original ==
    /\ \A i \in 1..Len(gatewayCache) :
          LruFresh(gatewayCache[i], clock, gatewayCacheTtl)
          => clock - gatewayCache[i].value.timestamp <= gatewayCacheTtl
    /\ [][ \A t \in Callers :
             ( /\ FetchBegins(t)
               /\ LruStored(gatewayCache, fetch'[t].cid)
               /\ clock - LruEntry(gatewayCache, fetch'[t].cid).value.timestamp
                    > gatewayCacheTtl )
             => ~ServedFromCache(t) ]_vars

\* C21 amended: the ttl of an entry of the gateway cache counts from its
\* insertion or from the last fetchContent that returned it, whichever is
\* later: a fetchContent within the ttl of that moment returns the cached
\* data and restarts the ttl, and a fetchContent after it drops the entry
\* and goes through the local and gateway retrieval again; nothing else
\* moves that moment.
C21_SlidingExpiry ==
    /\ \A i \in 1..Len(gatewayCache) :
          /\ gatewayCache[i].start >= gatewayCache[i].value.timestamp
          /\ gatewayCache[i].start <= clock
    /\ [][ \A t \in Callers :
             /\ ( /\ FetchBegins(t)
                  /\ LruStored(gatewayCache, fetch'[t].cid)
                  /\ clock - LruEntry(gatewayCache, fetch'[t].cid).start
                       <= gatewayCacheTtl )
                => /\ ServedFromCache(t)
                   /\ ret'[t].data
                        = LruEntry(gatewayCache, fetch'[t].cid).value.data
                   /\ LruEntry(gatewayCache', fetch'[t].cid)
                        = [LruEntry(gatewayCache, fetch'[t].cid)
                             EXCEPT !.start = clock]
             /\ ( /\ FetchBegins(t)
                  /\ LruStored(gatewayCache, fetch'[t].cid)
                  /\ clock - LruEntry(gatewayCache, fetch'[t].cid).start
                       > gatewayCacheTtl )
                => /\ ~ServedFromCache(t)
                   /\ pc'[t] \in {"cat", "gateway"}
                   /\ ~LruStored(gatewayCache', fetch'[t].cid)
             /\ ( \A u \in Callers :
                    ~FetchBegins(u) /\ ( pc'[u] = "done" => pc[u] = "done" ) )
                => gatewayCache' = gatewayCache ]_vars

\* a fetchContent returned cached data that was inserted more than a ttl ago
C21_Witness ==
    /\ pc["c1"] = "done"
    /\ call["c1"].op = "fetchContent"
    /\ fetch["c1"].local = "none"
    /\ fetch["c1"].requests = << >>
    /\ clock - LruEntry(gatewayCache, fetch["c1"].cid).value.timestamp
         > gatewayCacheTtl

\* a fetchContent found its entry too old and is retrieving again
C21_WitnessExpired ==
    /\ pc["c1"] \in {"cat", "gateway"}
    /\ clock > gatewayCacheTtl
    /\ ~LruStored(gatewayCache, fetch["c1"].cid)
    /\ MapHas(contentCache, fetch["c1"].cid.id)

\* the URL of a locator on a gateway, from the two arguments alone
UrlOn(ipfsUrl, gateway) ==
    CASE ipfsUrl.form \in {"ipfs", "cid"} ->
           HttpUrl(gateway, ipfsUrl.id, ipfsUrl.path)
      [] ipfsUrl.form = "http" -> ipfsUrl
      [] OTHER -> EmptyString

\* C22: getHttpUrl(ipfsUrl, gateway) returns a value, never an error, that
\* its two arguments determine: the URL of the content on the given gateway
\* for an ipfs:// URL or a valid bare content id, the empty string for a
\* malformed bare id, an http URL as it is, whatever was resolved before.
C22_UrlFromArguments ==
    \A t \in Callers :
        ( pc[t] = "done" /\ call[t].op = "getHttpUrl" )
        => /\ ret[t].kind = "url"
           /\ ret[t].url = UrlOn(call[t].ipfsUrl, call[t].gateway)

\* C22 for a locator the resolution cache does not hold: the URL is the one
\* the two arguments determine; for a locator it holds, the URL is the one
\* stored, whatever the gateway given; no call ends with an error.
C22_UrlFromCacheFirst ==
    [][ \A t \in Callers :
          ( pc[t] = "idle" /\ pc'[t] = "done" /\ call'[t].op = "getHttpUrl" )
          => /\ ret'[t].kind = "url"
             /\ ret'[t].url =
                  IF /\ call'[t].ipfsUrl.form # "empty"
                     /\ LruHas(resolvedUrlCache, call'[t].ipfsUrl, clock,
                               resolvedUrlCacheTtl)
                  THEN LruGet(resolvedUrlCache, call'[t].ipfsUrl).url
                  ELSE UrlOn(call'[t].ipfsUrl, call'[t].gateway) ]_vars

\* the gateways of the fixed list
Gateways == { PUBLIC_GATEWAYS[i] : i \in 1..Len(PUBLIC_GATEWAYS) }

\* getWorkingGateways returns in this step
RankReturns(t) ==
    /\ pc[t] = "idle"
    /\ pc'[t] = "done"
    /\ call'[t].op = "getWorkingGateways"

\* the list holds, once each, the gateways that resolution-cache entries
\* younger than 30 minutes name, most entries first, and the call leaves
\* both caches as they are
RankedFromCache(t) ==
    LET list == ret'[t].list
        recent == RecentSuccessful(resolvedUrlCache, clock)
    IN  /\ ret'[t].kind = "gateways"
        /\ { list[i] : i \in 1..Len(list) }
             = { g \in Gateways : GatewayCount(recent, g) > 0 }
        /\ \A i, j \in 1..Len(list) :
              /\ i < j => GatewayCount(recent, list[i])
                            >= GatewayCount(recent, list[j])
              /\ i # j => list[i] # list[j]
        /\ UNCHANGED << gatewayCache, resolvedUrlCache >>

\* a gateway answered a fetchContent in this step
Served(t, gateway) ==
    /\ pc[t] = "gateway"
    /\ pc'[t] = "done"
    /\ ret'[t].kind = "content"
    /\ fetch[t].httpUrl.gateway = gateway

\* C23: getWorkingGateways returns the gateways that resolution-cache
\* entries younger than 30 minutes name, by descending count of entries, and
\* changes neither cache; the count of a gateway grows only when that
\* gateway has answered a fetchContent.
C23_RankOnlyServed ==
    [][ /\ \A t \in Callers : RankReturns(t) => RankedFromCache(t)
        /\ \A g \in Gateways :
              GatewayCount(RecentSuccessful(resolvedUrlCache', clock'), g)
                > GatewayCount(RecentSuccessful(resolvedUrlCache, clock), g)
              => \E t \in Callers : Served(t, g) ]_vars

\* C23 without the part on what is counted: the list is made of the
\* resolution cache as it is, and the call changes neither cache.
C23_RankFromCache ==
    [][ \A t \in Callers : RankReturns(t) => RankedFromCache(t) ]_vars

\* the delay before the k-th wait of a withRetry
DelayBefore(waits, k) == IF k = 1 THEN initialDelay ELSE waits[k - 1]

\* C24: the k-th wait of a withRetry is min(delay * factor + jitter, maxDelay)
\* for the delay before it, initialDelay at first, and a jitter from 0 up to,
\* not including, 0.3 times that delay; so the waits do not decrease and do
\* not exceed maxDelay; there is a wait after every failed invocation but the
\* last; and a withRetry whose invocations all end is over in the end.
C24_Backoff ==
    /\ [](\A t \in Tasks :
            /\ \A k \in 1..Len(ops[t].waits) :
                  LET delay == DelayBefore(ops[t].waits, k)
                      wait == ops[t].waits[k]
                  IN  /\ wait <= maxDelay
                      /\ wait >= delay
                      /\ \E jitter \in 0..((3 * delay) \div 10) :
                            /\ 10 * jitter < 3 * delay
                            /\ wait = Min(delay * factor + jitter, maxDelay)
            /\ Len(ops[t].waits) < maxRetries
            /\ Len(ops[t].waits) \in {Len(ops[t].thrown),
                                      Len(ops[t].thrown) - 1}
            /\ retry[t].phase = "wait"
               => Len(ops[t].waits) = Len(ops[t].thrown)
            /\ Len(ops[t].thrown) = maxRetries
               => Len(ops[t].waits) = maxRetries - 1)
    /\ \A t \in Tasks :
          [](retry[t].phase # "off" => <>(retry[t].phase = "off"))

\* a withRetry in its second wait, which is longer than twice the first
C24_Witness ==
    /\ retry["c1"].phase = "wait"
    /\ Len(ops["c1"].waits) = 2
    /\ ops["c1"].waits[2] > factor * ops["c1"].waits[1]

\* the storage of the registry, without its block and the record of the call
Storage(reg) == << reg.organizations, reg.userToOrgId, reg.orgMembers >>

\* a call of the named function is made in this step
Sends(fn) ==
    /\ registry' # registry
    /\ registry'.timestamp = registry.timestamp
    /\ registry'.tx.fn = fn

\* C25: a createOrganization that succeeds leaves userToOrgId of the sender
\* at an organization whose admin is the sender, which is active and has the
\* sender among its members; sent by an address that has an organization it
\* reverts and leaves the storage as it was; and the admin of every
\* organization is among its members at all times, a removeMember of the
\* admin reverting.
C25_OneOrganizationPerAdmin ==
    /\ [](\A orgId \in DOMAIN registry.organizations :
            /\ registry.organizations[orgId].admin \in Accounts
            /\ registry.organizations[orgId].admin
                 \in MembersAt(registry, orgId)
            /\ registry.userToOrgId[registry.organizations[orgId].admin]
                 = orgId)
    /\ [][ Sends("createOrganization")
           => LET sender == registry'.tx.sender
                  orgId == registry'.userToOrgId[sender]
              IN  IF registry.userToOrgId[sender] # ZeroId
                  THEN /\ registry'.tx.status = "reverted"
                       /\ Storage(registry') = Storage(registry)
                  ELSE /\ registry'.tx.status = "ok"
                       /\ orgId # ZeroId
                       /\ orgId \notin DOMAIN registry.organizations
                       /\ OrganizationAt(registry', orgId).admin = sender
                       /\ OrganizationAt(registry', orgId).active
                       /\ sender \in MembersAt(registry', orgId) ]_vars
    /\ [][ ( /\ Sends("removeMember")
             /\ registry'.tx.member
                  = OrganizationAt(registry, registry'.tx.orgId).admin )
           => /\ registry'.tx.status = "reverted"
              /\ Storage(registry') = Storage(registry) ]_vars

\* the admin of an organization with another member sent a removeMember of
\* itself, which reverted
C25_Witness ==
    /\ registry.tx.fn = "removeMember"
    /\ registry.tx.status = "reverted"
    /\ registry.tx.reason = "Cannot remove admin"
    /\ registry.tx.member = registry.tx.sender
    /\ MembersAt(registry, registry.tx.orgId) = Accounts

\* an account that has an organization sent createOrganization, and it
\* reverted
C25_WitnessSecond ==
    /\ registry.tx.fn = "createOrganization"
    /\ registry.tx.status = "reverted"
    /\ registry.userToOrgId[registry.tx.sender] # ZeroId

\* a timer callback ends a reconnect that succeeded in this step
Reconnects(t) ==
    /\ t # "ctor"
    /\ Connecting(t)
    /\ pc'[t] = "done"
    /\ ret'[t].connect = "returned"

\* C26: a reconnect of a timer callback leaves the index of every collection
\* as it was: what findById found before it, findById finds after it.
C26_ReconnectKeepsIndexes ==
    [][ \A t \in Loops :
          Reconnects(t)
          => \A name \in CollectionNames :
                Index(collections', name) = Index(collections, name) ]_vars

\* an initIPFS that succeeded calls startHealthCheck in this step
StartsHealthCheck(t) ==
    /\ Connecting(t)
    /\ pc'[t] = "done"
    /\ ret'[t].connect = "returned"

\* C27: at most one health-check timer is scheduled at any time: setInterval
\* is called only while no timer is scheduled, however many reconnects
\* succeed.
C27_OneTimer ==
    /\ [](timers <= 1)
    /\ [][ \A t \in Loops : StartsHealthCheck(t) => timers = 0 ]_vars

\* a caller's call issues a backend request in this step: the first add, the
\* first pin, or another attempt of either
IssuesRequest(t) ==
    /\ pc'[t] \in {"add", "pin"}
    /\ \/ pc[t] # pc'[t]
       \/ ops'[t].invoked > ops[t].invoked

\* C28: every backend request of one create, update or uploadFile goes to the
\* handle the first request of the call went to, whatever the timer callback
\* does while the call is suspended.
C28_OneHandlePerCall ==
    [][ \A t \in Callers :
          IssuesRequest(t) => ipfs' = call'[t].handle ]_vars

\* C29: an id that is absent from the index of a collection, as it is after a
\* delete that returned true, enters the index only at the end of a create:
\* an update that read the record before the delete does not put it back.
C29_DeletedStaysAbsent ==
    [][ \A name \in CollectionNames, id \in CallerIds :
          ( /\ ~MapHas(Index(collections, name), id)
            /\ MapHas(Index(collections', name), id) )
          => \E t \in Callers :
                /\ call[t].op = "create"
                /\ call[t].collection = name
                /\ pc[t] = "pin"
                /\ pc'[t] = "done" ]_vars

\* C30: the content a fetchContent returns is the content at the locator it
\* was called with, also for two locators with one content id and two paths,
\* and every entry of the resolution cache holds the URL of its locator on
\* the gateway it names.
C30_ResultsBelongToLocator ==
    /\ \A t \in Callers :
          ( pc[t] = "done" /\ call[t].op = "fetchContent"
            /\ ret[t].kind = "content" )
          => ret[t].data.body = << call[t].ipfsUrl.id, call[t].ipfsUrl.path >>
    /\ \A i \in 1..Len(resolvedUrlCache) :
          resolvedUrlCache[i].value.url
            = HttpUrl(resolvedUrlCache[i].value.gateway,
                      resolvedUrlCache[i].key.id, resolvedUrlCache[i].key.path)

\* C30 for the content alone
C30_ContentBelongsToLocator ==
    \A t \in Callers :
        ( pc[t] = "done" /\ call[t].op = "fetchContent"
          /\ ret[t].kind = "content" )
        => ret[t].data.body = << call[t].ipfsUrl.id, call[t].ipfsUrl.path >>

====
